---------------------------- MODULE Spec2Model ----------------------------
(***************************************************************************)
(* A model of the conversation-to-query backend (backend/app.py,           *)
(* backend/db.py, backend/nlp_to_sql.py): the Write Gate is_write_query,   *)
(* and the ask / confirm / cancel handlers around the in-memory table      *)
(* pending_queries, the chat store and the schema cache.                   *)
(*                                                                         *)
(* Text is kept as text: a SQL statement, a chat turn and an error message *)
(* are TLA+ strings, and the string functions of the code (upper, lower,   *)
(* startswith, `in`) are computed character by character.                  *)
(***************************************************************************)
EXTENDS Naturals, Sequences, FiniteSets, TLC

VARIABLES
    pending_queries,  \* app.py:234, session key -> {sql, user_id}
    chat_messages,    \* the table private.chat_messages, one partition per user_id
    schema_cache,     \* db.py:14 _schema_cache, user_id -> schema
    reqs,             \* thread -> the ask, confirm or cancel request it serves
    fetching,         \* the identities whose chat_schema request is fetching the schema
    received,         \* how many ask, confirm and cancel requests have come in
    asked,            \* how many of them were ask requests
    last,             \* the request answered most recently
    select_shape,     \* the shape in which execute_query answers a SELECT
    session_state,    \* spec 4.5's NONE / PENDING / EXECUTED / CANCELLED per session key
    wq_query,         \* the argument of a call of is_write_query
    wq_pc,            \* "idle" | "call" | "return"
    wq_result,        \* what that call returned
    syn,              \* a call of generate_sql_from_chat_history
    clar,             \* a call of maybe_generate_clarifier and what ask does next
    hum,              \* a call of rewrite_db_error
    det,              \* a call of detect_chartable
    norm,             \* a call of normalize_history
    catalog           \* what information_schema of the database describes now

vars ==
    <<pending_queries, chat_messages, schema_cache, reqs, fetching, received, asked, last,
      select_shape, session_state, wq_query, wq_pc, wq_result, syn, clar, hum, det, norm,
      catalog>>

gate_vars_but_catalog ==
    <<pending_queries, chat_messages, schema_cache, reqs, fetching, received, asked, last,
      select_shape, session_state>>

gate_vars ==
    <<pending_queries, chat_messages, schema_cache, reqs, fetching, received, asked, last,
      select_shape, session_state, catalog>>

wq_vars == <<wq_query, wq_pc, wq_result>>

\* the calls of the functions that are modelled by themselves
fn_vars == <<wq_vars, syn, clar, hum, det, norm>>

----------------------------------------------------------------------------
(* Text.                                                                   *)

LowerAlpha == "abcdefghijklmnopqrstuvwxyz"

UpperAlpha == "ABCDEFGHIJKLMNOPQRSTUVWXYZ"

Digits == "0123456789"

CharAt(s, i) == SubSeq(s, i, i)

IndexIn(alpha, c) ==
    IF \E i \in 1..Len(alpha) : CharAt(alpha, i) = c
    THEN CHOOSE i \in 1..Len(alpha) : CharAt(alpha, i) = c
    ELSE 0

\* str.upper() / str.lower() on one character
UpChar(c) ==
    IF IndexIn(LowerAlpha, c) > 0 THEN CharAt(UpperAlpha, IndexIn(LowerAlpha, c)) ELSE c

LowChar(c) ==
    IF IndexIn(UpperAlpha, c) > 0 THEN CharAt(LowerAlpha, IndexIn(UpperAlpha, c)) ELSE c

RECURSIVE upper(_)
upper(s) ==
    IF Len(s) = 0 THEN s
    ELSE UpChar(CharAt(s, 1)) \o upper(SubSeq(s, 2, Len(s)))

RECURSIVE lstrip(_)
lstrip(s) ==
    IF Len(s) > 0 /\ CharAt(s, 1) = " " THEN lstrip(SubSeq(s, 2, Len(s))) ELSE s

RECURSIVE rstrip(_)
rstrip(s) ==
    IF Len(s) > 0 /\ CharAt(s, Len(s)) = " " THEN rstrip(SubSeq(s, 1, Len(s) - 1)) ELSE s

\* str.strip(), for the blanks the model's texts hold
strip(s) == rstrip(lstrip(s))

RECURSIVE lower(_)
lower(s) ==
    IF Len(s) = 0 THEN s
    ELSE LowChar(CharAt(s, 1)) \o lower(SubSeq(s, 2, Len(s)))

\* Python's `needle in haystack` on strings
Contains(haystack, needle) ==
    \E i \in 1..(Len(haystack) + 1) :
        /\ i + Len(needle) - 1 <= Len(haystack)
        /\ SubSeq(haystack, i, i + Len(needle) - 1) = needle

\* str.startswith
startswith(s, prefix) ==
    /\ Len(prefix) <= Len(s)
    /\ SubSeq(s, 1, Len(prefix)) = prefix

----------------------------------------------------------------------------
(* The Write Gate, db.py:123-129.                                          *)

keywords ==
    { "INSERT", "UPDATE", "DELETE", "TRUNCATE", "ALTER", "DROP", "CREATE",
      "GRANT", "REVOKE", "EXECUTE", "CALL", "MERGE" }

\* the gate with the call of upper() forgotten: a case-sensitive match
is_write_query_case_sensitive(query) == \E kw \in keywords : Contains(query, kw)

is_write_query(query) == \E kw \in keywords : Contains(upper(query), kw)


----------------------------------------------------------------------------
(* Bounds of the model.                                                    *)

\* ask, confirm and cancel requests received in one behaviour
MaxReqs == 3

\* ask requests received in one behaviour
MaxAsks == 1

\* requests being handled at the same time (Flask serves each in a thread)
MaxActive == 2

\* fragments joined into one argument of is_write_query
MaxPieces == 3

\* ask requests received in one behaviour in which only ask requests are served
MaxAsksAlone == 2

----------------------------------------------------------------------------
(* The world around the handlers.                                          *)

\* JWT identities (app.py:183, str(user_id))
Users == { "u1", "u2" }

\* the role column of private.users (models.py:18)
role_of == [ u \in Users |-> IF u = "u1" THEN "admin" ELSE "user" ]

\* Python's None where the code holds a string or None
None == "<None>"

\* the session key of a request that names none (app.py:425, app.py:470)
DefaultSession == "default"

\* what a client may put into the session_id field; "" is a missing field
SessionFields == { "" } \cup Users

\* what a client may put into the decision field
Decisions == { "YES", "no", "maybe" }

\* what a client may put into the message field of /ask
Messages == { " ", "delete inactive users", "show me all tables" }

\* The text-generation gateway is not part of the repository: what
\* generate_sql_from_chat_history (nlp_to_sql.py:137-222) hands back to ask is
\* any of these: SQL judged schema-grounded, or a failure value "Error: ...".
ReadSql == "SELECT * FROM users"

WriteSql == "DELETE FROM users WHERE active = false"

ColumnSql == "SELECT updated_at FROM users"

FailureValue == "Error: 429 quota exceeded"

\* nlp_to_sql.py:165
CatalogSql ==
    "SELECT table_name FROM information_schema.tables WHERE table_schema = 'public' ORDER BY table_name;"

\* nlp_to_sql.py:219
ungrounded_failure(sql) ==
    "Error: Generated SQL does not reference known tables/columns from the schema. SQL: "
      \o sql

\* nlp_to_sql.py:222
gateway_failure(e) == "Error: " \o e

\* the failure value for an answer of the gateway that names nothing of the schema
UngroundedFailure == ungrounded_failure("DROP TABLE old_stuff")

SynthResults == { ReadSql, WriteSql, ColumnSql, FailureValue, UngroundedFailure }

\* what maybe_generate_clarifier (nlp_to_sql.py:224-266) hands back to ask
ClarifierResults == { None, "Which table should I use?" }

\* model.generate_content(prompt): the text of the answer, or the message of
\* the exception raised
Reply(ok, text) == [ ok |-> ok, text |-> text ]

\* what the gateway answers to the prompt of rewrite_db_error in a request
HumanizerReplies ==
    { Reply(TRUE, "That table does not exist. Did you mean customers?"),
      Reply(FALSE, "503 service unavailable") }

\* what the database driver raises for a statement it rejects
DriverError == "relation \"users\" does not exist"

\* the statement of ask's role lookup, app.py:339-340
RoleLookupSql == "SELECT role FROM private.users WHERE user_id = %s"


\* The statements and the texts that reach the string functions inside the
\* handlers. What the functions make of them is worked out once, below, and
\* looked up in each step.
Statements == SynthResults \cup { RoleLookupSql, CatalogSql }

\* a Write Gate that takes no statement for a mutating one
is_write_never == [ q \in Statements |-> FALSE ]

\* is_write_query(sql_query) at app.py:364 and app.py:510
is_write == [ q \in Statements |-> is_write_query(q) ]

\* data.get('message', '').strip() at app.py:335
stripped == [ m \in Messages |-> strip(m) ]

\* a reading of the decision field that takes whatever it holds for a yes
taken_for_yes == [ d \in Decisions |-> "yes" ]

\* (data.get('decision') or '').lower() at app.py:426
lowered == [ d \in Decisions |-> lower(d) ]

----------------------------------------------------------------------------
(* The execution adapter, db.py:219-250.                                   *)

\* db.py:225: the statements execute_query refuses before it connects
invalid_sql(query) == query = "" \/ startswith(lower(query), "error:")

is_invalid == [ q \in Statements |-> invalid_sql(q) ]

\* Whether the driver describes a result set for the statement
\* (cur.description, db.py:237): it does for a SELECT.
has_description(query) == startswith(upper(query), "SELECT")

is_described == [ q \in Statements |-> has_description(q) ]

\* db.py:237-243: what execute_query returns for a statement the database ran.
\* A SELECT is answered with the map {columns, rows} (select_shape = "map",
\* db.py:240). select_shape = "rows" is the list of records that the callers
\* at app.py:95, app.py:342, app.py:376 and app.py:442 test for first; db.py
\* as it stands never answers so. A behaviour keeps the shape it starts with.
execute_query(query, rows) ==
    IF is_described[query]
    THEN IF select_shape = "map"
         THEN [ shape |-> "dict", columns |-> << "id" >>, rows |-> rows ]
         ELSE [ shape |-> "list", columns |-> << >>, rows |-> rows ]
    ELSE [ shape |-> "dict", columns |-> << >>, rows |-> << >> ]

\* the rows of private.users that the role lookup selects (app.py:339-340)
user_rows(user_id) ==
    IF user_id \in Users THEN << [ role |-> role_of[user_id] ] >> ELSE << >>

\* app.py:341-343: the role ask reads out of the answer of the role lookup
user_role_from(user_info) ==
    IF user_info.shape = "list" /\ Len(user_info.rows) > 0
    THEN user_info.rows[1].role
    ELSE None

\* app.py:376-385 (and 442-451): columns and rows out of the adapter's answer
shape_result(results_raw) ==
    IF results_raw.shape = "list"
    THEN [ columns |-> << >>, rows |-> results_raw.rows ]
    ELSE [ columns |-> results_raw.columns, rows |-> results_raw.rows ]

----------------------------------------------------------------------------
(* The chat store, db.py:35-120, and app.py:237-269.                       *)

\* uuid.uuid4() (app.py:240): an identifier no row of the table holds
uuid4(table) == "m" \o ToString(Len(table) + 1)

\* db.py:59-69: INSERT ... ON CONFLICT (message_id) DO UPDATE
save_message(table, user_id, message_id, content, role, session_id) ==
    IF \E k \in 1..Len(table) : table[k].message_id = message_id
    THEN [ k \in 1..Len(table) |->
             IF table[k].message_id = message_id
             THEN [ table[k] EXCEPT !.content = content, !.role = role,
                                    !.session_id = session_id ]
             ELSE table[k] ]
    ELSE Append(table, [ user_id |-> user_id, message_id |-> message_id,
                         content |-> content, role |-> role,
                         session_id |-> session_id ])

\* app.py:237-242
remember(table, user_id, role, content, message_id) ==
    save_message(table, user_id, message_id, content, role, user_id)

\* db.py:80-106: the rows of one user_id, oldest first; created_at is left out
get_chat_history(table, user_id) ==
    LET mine(row) == row.user_id = user_id
        rows == SelectSeq(table, mine)
    IN  [ k \in 1..Len(rows) |->
            [ message_id |-> rows[k].message_id, content |-> rows[k].content,
              role |-> rows[k].role ] ]

\* A dictionary is a record of its keys; a value that is no dictionary is the
\* record of its string form under the one field str.
isinstance_dict(entry) == "str" \notin DOMAIN entry

\* entry.get(key)
get(entry, key) == IF key \in DOMAIN entry THEN entry[key] ELSE None

\* the truth value of a text or of None
truthy(value) == value \notin { None, "" }

\* a or b
or(a, b) == IF truthy(a) THEN a ELSE b

\* app.py:245-264 with the entries that are no dictionaries skipped
normalize_dictionaries(raw_history) ==
    LET normalized(n) ==
            [ role |-> or(get(raw_history[n], "role"), or(get(raw_history[n], "type"), "assistant")),
              content |-> or(get(raw_history[n], "content"), (or(get(raw_history[n], "text"),
                             or(get(raw_history[n], "message"), "")))),
              message_id |-> or(get(raw_history[n], "message_id"),
                                or(get(raw_history[n], "messageId"), get(raw_history[n], "id"))),
              timestamp |-> or(get(raw_history[n], "timestamp"), get(raw_history[n], "time")) ]
        kept == SelectSeq([ n \in 1..Len(raw_history) |-> n ],
                          LAMBDA n : isinstance_dict(raw_history[n]))
    IN  [ k \in 1..Len(kept) |-> normalized(kept[k]) ]

\* app.py:245-264
normalize_history(raw_history) ==
    [ k \in 1..Len(raw_history) |->
        LET entry == raw_history[k]
        IN  IF isinstance_dict(entry)
            THEN [ role |-> or(get(entry, "role"), or(get(entry, "type"), "assistant")),
                   content |-> or(get(entry, "content"),
                                  or(get(entry, "text"), or(get(entry, "message"), ""))),
                   message_id |-> or(get(entry, "message_id"),
                                     or(get(entry, "messageId"), get(entry, "id"))),
                   timestamp |-> or(get(entry, "timestamp"), get(entry, "time")) ]
            ELSE [ role |-> "assistant", content |-> entry.str,
                   message_id |-> None, timestamp |-> None ] ]

\* db.py:111-120 with the DELETE taking every row of the table
clear_whole_table(table, user_id) == << >>

\* db.py:111-120: DELETE FROM private.chat_messages WHERE user_id = %s
clear_chat_history(table, user_id) ==
    LET others(row) == row.user_id # user_id
    IN  SelectSeq(table, others)

\* app.py:267-269
get_history(table, user_id) == normalize_history(get_chat_history(table, user_id))

\* json.dumps of the payload {"type": "results", sql, columns, rows}
\* (app.py:390-392, db.py:52); the rows themselves are left out
results_payload(sql, cols) ==
    "{\"type\": \"results\", \"sql\": \"" \o sql \o "\", \"columns\": "
      \o (IF Len(cols) = 0 THEN "[]" ELSE "[\"" \o cols[1] \o "\"]")
      \o ", \"rows\": []}"


----------------------------------------------------------------------------
(* The conversation handed to the text-generation gateway,                 *)
(* nlp_to_sql.py:23-47, and the helpers of the Synthesizer,                *)
(* nlp_to_sql.py:76-135.                                                   *)

\* The value json.loads (db.py:94) makes of a stored content, told by the
\* text: a JSON object, a JSON number, or no JSON at all (the text itself).
\* The texts of the model are of these three sorts.
RECURSIVE AllDigits(_)
AllDigits(s) ==
    \/ Len(s) = 0
    \/ /\ IndexIn(Digits, CharAt(s, 1)) > 0
       /\ AllDigits(SubSeq(s, 2, Len(s)))

json_loads(raw_content) ==
    IF Len(raw_content) = 0 THEN "str"
    ELSE IF CharAt(raw_content, 1) = "{" /\ CharAt(raw_content, Len(raw_content)) = "}"
    THEN "dict"
    ELSE IF AllDigits(raw_content) THEN "int"
    ELSE "str"

\* content.get("type") == "results" on the payload of app.py:390
is_results_payload(content) == startswith(content, "{\"type\": \"results\"")

\* nlp_to_sql.py:23-47
filter_history_for_llm(chat_history) ==
    LET keep(entry) ==
            LET content == entry.content
                sort == json_loads(content)
                text == strip(content)
            IN  IF sort = "dict" THEN ~is_results_payload(content)
                ELSE IF sort = "str"
                THEN ~( /\ entry.role = "assistant"
                        /\ \/ /\ startswith(text, "{")
                              /\ Len(text) > 0 /\ CharAt(text, Len(text)) = "}"
                           \/ Len(text) > 2500 )
                ELSE TRUE
    IN  SelectSeq(chat_history, keep)

\* the first place at or after from where needle stands in s, or 0
Find(s, needle, from) ==
    LET places == { i \in from..(Len(s) - Len(needle) + 1) :
                      SubSeq(s, i, i + Len(needle) - 1) = needle }
    IN  IF places = { } THEN 0
        ELSE CHOOSE i \in places : \A j \in places : i <= j

\* The backquote of a code fence is written ~ in the texts of the model.
\* re.sub of runs of three or more backquotes by nothing, nlp_to_sql.py:82
RECURSIVE drop_fences(_)
drop_fences(text) ==
    LET at == Find(text, "~~~", 1)
        RECURSIVE ticks(_)
        ticks(i) == IF i <= Len(text) /\ CharAt(text, i) = "~" THEN ticks(i + 1) ELSE i
    IN  IF at = 0 THEN text
        ELSE SubSeq(text, 1, at - 1) \o drop_fences(SubSeq(text, ticks(at), Len(text)))

\* nlp_to_sql.py:76-85: the first fenced block if there is one, fences and a
\* leading "sql:" taken off
_strip_markdown_fences(text) ==
    IF text = "" THEN ""
    ELSE LET open == Find(text, "~~~", 1)
             tagged == open > 0 /\ lower(SubSeq(text, open + 3, open + 5)) = "sql"
             body == IF tagged THEN open + 6 ELSE open + 3
             close == IF open > 0 THEN Find(text, "~~~", body) ELSE 0
             t1 == IF close > 0 THEN strip(SubSeq(text, body, close - 1)) ELSE text
             t2 == drop_fences(t1)
             t3 == IF startswith(lower(strip(t2)), "sql:")
                   THEN SubSeq(t2, Find(t2, ":", 1) + 1, Len(t2))
                   ELSE t2
         IN  strip(t3)

\* a schema as fetch_schema_info (db.py:132-202) builds it: table -> the
\* names of its columns
tables_of(schema) == DOMAIN schema

\* nlp_to_sql.py:198-206
schema_tokens(schema) ==
    { lower(t) : t \in tables_of(schema) }
      \cup UNION { { lower(schema[t][k]) : k \in 1..Len(schema[t]) } : t \in tables_of(schema) }

\* nlp_to_sql.py:208 and 215 with schema validation left out: any text passes
grounded_always(sql, schema) == TRUE

\* nlp_to_sql.py:208 and 215: some token of the schema stands in the
\* lowercased text
grounded(sql, schema) ==
    \E tok \in schema_tokens(schema) : tok # "" /\ Contains(lower(sql), tok)

\* nlp_to_sql.py:114-123 with the conversation left unread: any table will do
_find_table_anywhere(schema, chat_history) ==
    IF tables_of(schema) = { } THEN { None }
    ELSE { lower(t) : t \in tables_of(schema) }

\* nlp_to_sql.py:114-123: what the function may return. The tables are held
\* in a set, so of the tables named in the latest turn that names any, the
\* one returned is whichever the iteration meets first.
_find_table_in_history(schema, chat_history) ==
    IF tables_of(schema) = { } \/ Len(chat_history) = 0 THEN { None }
    ELSE LET tables == { lower(t) : t \in tables_of(schema) }
             first == IF Len(chat_history) > 8 THEN Len(chat_history) - 7 ELSE 1
             named(k) == { t \in tables : Contains(lower(chat_history[k].content), t) }
             naming == { k \in first..Len(chat_history) : named(k) # { } }
         IN  IF naming = { } THEN { None }
             ELSE named(CHOOSE k \in naming : \A j \in naming : j <= k)

\* nlp_to_sql.py:125-129
_is_show_tables_intent(text) ==
    /\ text # ""
    /\ \E kw \in { "show me all tables", "show tables", "list tables", "what tables" } :
         Contains(lower(text), kw)

\* nlp_to_sql.py:131-135
_is_write_intent(text) ==
    /\ text # ""
    /\ \E kw \in { "add ", "insert ", "create ", "update ", "delete ", "remove ", "add:" } :
         Contains(lower(text), kw)

\* nlp_to_sql.py:143-149: the latest user turn, else the last turn, else None
last_user_of(filtered_history) ==
    LET users == { k \in 1..Len(filtered_history) : filtered_history[k].role = "user" }
        found == IF users # { }
                 THEN filtered_history[CHOOSE k \in users : \A j \in users : j <= k].content
                 ELSE None
    IN  IF found \in { None, "" } /\ Len(filtered_history) > 0
        THEN filtered_history[Len(filtered_history)].content
        ELSE found

----------------------------------------------------------------------------
(* Requests. Each request is served by its own thread; its record holds    *)
(* what the client sent, the handler's local variables, the place the      *)
(* handler has reached (pc), and what it has done so far.                  *)

NoResponse ==
    [ code |-> 0, error |-> "", message |-> "", clarifier |-> "", sql |-> "",
      has_history |-> FALSE, history |-> << >> ]

\* jsonify({...}), status: the fields of the body the model keeps
Response(code, error, message, clarifier, sql) ==
    [ code |-> code, error |-> error, message |-> message, clarifier |-> clarifier,
      sql |-> sql, has_history |-> FALSE, history |-> << >> ]

WithHistory(resp, history) ==
    [ resp EXCEPT !.has_history = TRUE, !.history = history ]

NewRequest(rid, kind, user, message, session_field, decision_field) ==
    [ rid |-> rid,
      kind |-> kind,
      user |-> user,                      \* get_jwt_identity()
      message |-> message,                \* data.get('message')
      session_field |-> session_field,    \* data.get('session_id')
      decision_field |-> decision_field,  \* data.get('decision')
      message_id |-> "",                  \* data.get('messageId'), POST /chat
      role |-> "",                        \* data.get('role'), POST /chat
      pc |-> kind,
      user_role |-> None,
      session_id |-> "",
      decision |-> "",
      history |-> << >>,
      clarifier |-> None,
      sql |-> "",
      error |-> "",
      calls |-> << >>,   \* the calls of execute_query for app.py:375 and app.py:441
      gateway |-> { },   \* the functions that called the gateway for this request
      turns |-> << >>,   \* the message_ids of the turns this request appended
      removed |-> << >>, \* the message_ids of the turns this request deleted
      stored |-> 0,      \* the entry this request stored
      entry |-> 0,       \* the entry this request read: the request that stored it
      consumed |-> 0,    \* the entry this request removed from the table
      own_entry |-> 0,   \* the entry under the caller's identity when the handler looked
      state_seen |-> "", \* session_state of the session key when the handler looked
      resp |-> NoResponse ]

\* the keys pending_queries may get
SessionKeys == Users \cup { DefaultSession }

\* the threads that serve ask, confirm and cancel requests
Threads == 1..MaxActive

\* a thread that serves no request
Idle == NewRequest(0, "idle", "", "", "", "")

At(i, label) == reqs[i].pc = label

Busy == { t \in Threads : reqs[t].pc # "idle" }

\* a thread is free to serve a further request
HasFreeThread == Cardinality(Busy) + Cardinality(fetching) < MaxActive

FreeThread == CHOOSE t \in Threads \ Busy : \A u \in Threads \ Busy : t <= u

CanReceive == received < MaxReqs /\ HasFreeThread

Finish(r, resp) == [ r EXCEPT !.pc = "done", !.resp = resp ]

\* A request comes in and its handler runs up to its first call that other
\* requests can tell apart; r is the request after that. Once answered, a
\* request is no longer among the requests being handled.
Begin(r) ==
    /\ received' = r.rid
    /\ IF r.pc = "done"
       THEN /\ last' = r
            /\ reqs' = reqs
       ELSE /\ reqs' = [ reqs EXCEPT ![FreeThread] = r ]
            /\ last' = last

\* the request of thread i goes on as r
Update(i, r) ==
    /\ received' = received
    /\ IF r.pc = "done"
       THEN /\ reqs' = [ reqs EXCEPT ![i] = Idle ]
            /\ last' = r
       ELSE /\ reqs' = [ reqs EXCEPT ![i] = r ]
            /\ last' = last

----------------------------------------------------------------------------
(* Steps shared by the handlers.                                           *)

\* dict membership and dict.pop(key, None) on pending_queries
has_pending_always(table, session_id) == TRUE

has_pending(table, session_id) == session_id \in DOMAIN table

pop_nothing(table, session_id) == table

pop(table, session_id) == [ k \in DOMAIN table \ { session_id } |-> table[k] ]

EntryAt(table, key) == IF key \in DOMAIN table THEN table[key].rid ELSE 0

\* pending_queries[user_id] = {"sql": ..., "user_id": ...}, app.py:369; rid
\* names the request that stored the entry and is no field of the code's
store(table, user_id, sql_query, rid) ==
    [ k \in DOMAIN table \cup { user_id } |->
        IF k = user_id THEN [ sql |-> sql_query, user_id |-> user_id, rid |-> rid ]
        ELSE table[k] ]

\* app.py:425 and app.py:470
session_key(session_field) ==
    IF session_field = "" THEN DefaultSession ELSE session_field

\* str(e) of what execute_query raises, and the record of the call
InvalidSqlError(query) == "Invalid SQL: " \o query

Call(query, outcome) == [ sql |-> query, outcome |-> outcome ]

\* the call reached the database (it passed db.py:225)
Ran(call) == call.outcome \in { "ok", "fail" }

\* nlp_to_sql.py:297-301 with the fallback echoing the error text as it is
rewrite_db_error_verbatim(error_message, reply) ==
    IF reply.ok THEN strip(reply.text) ELSE error_message

\* rewrite_db_error, nlp_to_sql.py:297-301: the gateway's text, or the fallback
rewrite_db_error(error_message, reply) ==
    IF reply.ok THEN strip(reply.text) ELSE "An error occurred: " \o error_message

\* suggest_next_commands, nlp_to_sql.py:330-335
suggest_next_commands ==
    { "- show last 10 orders", "- show customers\n- list products\n- latest orders" }

\* The texts of the turns the handlers append. The source marks some of them
\* with a pictograph, written here as (x), (ok) and (i).
NoPendingError == "No pending query for this session"

BadDecisionError == "Decision must be 'yes' or 'no'"

MessageRequiredError == "Message is required."

SchemaNotCachedError ==
    "Schema not cached. Please refresh or re-login to cache your schema before chatting."

AdminOnlyMessage ==
    "(x) Only admins are allowed to perform actions that modify the database (DELETE/UPDATE/INSERT). Please contact an administrator if you need this action."

ConfirmPrompt(sql_query) ==
    "This query will modify data. Do you want me to run it?\n\n" \o sql_query

----------------------------------------------------------------------------
(* The schema cache, db.py:205-216, and GET /chat/schema, app.py:286-294.  *)

\* what fetch_schema_info (db.py:132-202) returns for the database at hand
TheSchema == "users(id, active, updated_at)"

\* ... once a table has been added to the database
GrownSchema == "users(id, active, updated_at), orders(id, total)"

\* ... for a database without tables: the dictionary {}
NoTables == ""

Catalogs == { TheSchema, GrownSchema, NoTables }

\* the exception of a catalog query that fails (db.py:134, db.py:139)
FetchFailure == "connection refused"

\* db.py:132-202: the description of the catalog, or the exception raised
fetch_schema_info == { catalog, FetchFailure }

get_cached_schema(cache, user_id) == cache[user_id]

\* not schema (app.py:290, 319, 351, 496): no entry, or the dictionary {}
absent(schema) == schema \in { None, NoTables }

\* db.py:205-210 with an empty entry written when the catalog cannot be read
cache_schema_eagerly(cache, user_id, fetched) ==
    [ cache EXCEPT ![user_id] = IF fetched = FetchFailure THEN NoTables ELSE fetched ]

\* db.py:205-210: the entry is written when fetch_schema_info has returned
cache_schema_for_user(cache, user_id, fetched) ==
    IF fetched = FetchFailure
    THEN cache
    ELSE [ cache EXCEPT ![user_id] = fetched ]

\* a statement that changes the tables of the database is carried out on it
CatalogChange ==
    /\ catalog' \in Catalogs \ { catalog }
    /\ UNCHANGED <<gate_vars_but_catalog, fn_vars>>

\* app.py:289-292: the cached schema is answered, or a fetch is started
ChatSchemaGet ==
    /\ HasFreeThread
    /\ \E user \in Users \ fetching :
         LET r == NewRequest(0, "chat_schema", user, "", "", "")
             schema == get_cached_schema(schema_cache, user)
         IN  IF ~absent(schema)
             THEN /\ last' = Finish(r, Response(200, "", "", "", ""))
                  /\ fetching' = fetching
             ELSE /\ fetching' = fetching \cup { user }
                  /\ last' = last
    /\ UNCHANGED <<asked, pending_queries, chat_messages, schema_cache, reqs, received,
                   select_shape, session_state, fn_vars, catalog>>

\* db.py:207-210: the catalog is read and the entry written, or the read fails
\* and the handler answers 500 (app.py:293-294)
ChatSchemaFetch ==
    /\ \E user \in fetching :
         LET r == NewRequest(0, "chat_schema", user, "", "", "")
         IN  /\ fetching' = fetching \ { user }
             /\ \E fetched \in fetch_schema_info :
                  /\ schema_cache' = cache_schema_for_user(schema_cache, user, fetched)
                  /\ IF fetched # FetchFailure
                     THEN last' = Finish(r, Response(200, "", "", "", ""))
                     ELSE last' = Finish(r, Response(500, fetched, "", "", ""))
    /\ UNCHANGED <<asked, pending_queries, chat_messages, reqs, received, select_shape,
                   session_state, fn_vars, catalog>>

----------------------------------------------------------------------------
(* POST /ask, app.py:333-416.                                              *)

\* app.py:364-374 with the role check left out
ask_gate_any_role(sql_query, user_role) ==
    IF is_write[sql_query] THEN "pending" ELSE "execute"

\* app.py:364-374 with the whole gate left out
ask_gate_open(sql_query, user_role) == "execute"

\* app.py:364-374: what ask does with the synthesized statement
ask_gate(sql_query, user_role) ==
    IF is_write[sql_query]
    THEN IF user_role # "admin" THEN "refuse" ELSE "pending"
    ELSE "execute"

\* app.py:334-352: the role lookup, then the checks of the message and of the
\* schema cache
AskArrives ==
    /\ CanReceive
    /\ asked' = asked + 1
    /\ \E user \in Users, message \in Messages :
         LET r == NewRequest(received + 1, "ask", user, message, "", "")
             user_input == stripped[r.message]
             user_info == execute_query(RoleLookupSql, user_rows(r.user))
             user_role == user_role_from(user_info)
             schema == get_cached_schema(schema_cache, r.user)
             r1 == [ r EXCEPT !.user_role = user_role, !.message = user_input ]
         IN  IF user_input = ""
             THEN Begin(Finish(r1, Response(400, MessageRequiredError, "", "", "")))
             ELSE IF absent(schema)
             THEN Begin(Finish(r1, Response(400, SchemaNotCachedError, "", "", "")))
             ELSE Begin([ r1 EXCEPT !.pc = "ask_remember" ])
    /\ UNCHANGED <<pending_queries, chat_messages, schema_cache, fetching,
                   select_shape, session_state, fn_vars, catalog>>

AskBegin ==
    /\ asked < MaxAsks
    /\ AskArrives

\* ask requests where a second one may come in while the first is served
AskBeginAmongAsks ==
    /\ asked < MaxAsksAlone
    /\ AskArrives

\* app.py:354
AskRemember(i) ==
    /\ At(i, "ask_remember")
    /\ LET r == reqs[i]
       IN  /\ chat_messages' =
                remember(chat_messages, r.user, "user", r.message, uuid4(chat_messages))
           /\ Update(i, [ r EXCEPT !.pc = "ask_history",
                                       !.turns = Append(@, uuid4(chat_messages)) ])
    /\ UNCHANGED <<asked, pending_queries, schema_cache, fetching, select_shape,
                   session_state, fn_vars, catalog>>

\* app.py:355
AskHistory(i) ==
    /\ At(i, "ask_history")
    /\ Update(i, [ reqs[i] EXCEPT !.pc = "ask_clarifier",
                                  !.history = get_history(chat_messages, reqs[i].user) ])
    /\ UNCHANGED <<asked, pending_queries, chat_messages, schema_cache, fetching,
                   select_shape, session_state, fn_vars, catalog>>

\* app.py:357 with the test of the clarifier left out: ask always goes on
after_clarifier_ignored(clarifier) == "ask_synth"

\* app.py:357, the truth value of clarifier
after_clarifier(clarifier) ==
    IF clarifier \notin { None, "" } THEN "ask_clarified" ELSE "ask_synth"

\* app.py:356-357
AskClarifier(i) ==
    /\ At(i, "ask_clarifier")
    /\ \E clarifier \in ClarifierResults :
         Update(i, [ reqs[i] EXCEPT !.pc = after_clarifier(clarifier),
                                    !.clarifier = clarifier,
                                    !.gateway = @ \cup { "maybe_generate_clarifier" } ])
    /\ UNCHANGED <<asked, pending_queries, chat_messages, schema_cache, fetching,
                   select_shape, session_state, fn_vars, catalog>>

\* app.py:358-359: the answer carries the history read at app.py:355
AskClarified(i) ==
    /\ At(i, "ask_clarified")
    /\ LET r == reqs[i]
       IN  /\ chat_messages' =
                remember(chat_messages, r.user, "assistant", r.clarifier, uuid4(chat_messages))
           /\ Update(i, Finish([ r EXCEPT !.turns = Append(@, uuid4(chat_messages)) ],
                               WithHistory(Response(200, "", "", r.clarifier, ""),
                                           r.history)))
    /\ UNCHANGED <<asked, pending_queries, schema_cache, fetching, select_shape,
                   session_state, fn_vars, catalog>>

\* _is_show_tables_intent on the utterances the model's requests carry
show_tables == [ m \in { stripped[m] : m \in Messages } |-> _is_show_tables_intent(m) ]

\* nlp_to_sql.py:139-149 and 164: the operative request of the conversation
\* matches the list-tables pattern
show_tables_intent(chat_history) ==
    LET last_user == last_user_of(filter_history_for_llm(chat_history))
    IN  IF last_user \in DOMAIN show_tables THEN show_tables[last_user]
        ELSE last_user # None /\ _is_show_tables_intent(last_user)

\* generate_sql_from_chat_history at app.py:361: the catalog query without a
\* call of the gateway (nlp_to_sql.py:164-165), or what the gateway's answers
\* lead to
synthesized(chat_history) ==
    IF show_tables_intent(chat_history) THEN { CatalogSql } ELSE SynthResults

synthesizer_gateway(chat_history) ==
    IF show_tables_intent(chat_history) THEN { }
    ELSE { "generate_sql_from_chat_history" }

\* app.py:361-369: the Synthesizer's answer, the Write Gate, and for a
\* statement held back the entry in pending_queries
AskSynth(i) ==
    /\ At(i, "ask_synth")
    /\ \E sql_query \in synthesized(reqs[i].history) :
         LET r == [ reqs[i] EXCEPT !.sql = sql_query,
                                   !.gateway = @ \cup synthesizer_gateway(reqs[i].history) ]
             gate == ask_gate(sql_query, r.user_role)
         IN  CASE gate = "refuse" ->
                    /\ Update(i, [ r EXCEPT !.pc = "ask_refuse" ])
                    /\ UNCHANGED <<pending_queries, session_state>>
               [] gate = "pending" ->
                    /\ pending_queries' = store(pending_queries, r.user, sql_query, r.rid)
                    /\ session_state' = [ session_state EXCEPT ![r.user] = "PENDING" ]
                    /\ Update(i, [ r EXCEPT !.pc = "ask_prompt", !.stored = r.rid ])
               [] OTHER ->
                    /\ Update(i, [ r EXCEPT !.pc = "ask_execute" ])
                    /\ UNCHANGED <<pending_queries, session_state>>
    /\ UNCHANGED <<asked, chat_messages, schema_cache, fetching, select_shape, fn_vars, catalog>>

\* app.py:366-368
AskRefuse(i) ==
    /\ At(i, "ask_refuse")
    /\ LET r == reqs[i]
           table == remember(chat_messages, r.user, "assistant", AdminOnlyMessage,
                             uuid4(chat_messages))
       IN  /\ chat_messages' = table
           /\ Update(i, Finish([ r EXCEPT !.turns = Append(@, uuid4(chat_messages)) ],
                               WithHistory(Response(403, AdminOnlyMessage, "", "", ""),
                                           get_history(table, r.user))))
    /\ UNCHANGED <<asked, pending_queries, schema_cache, fetching, select_shape,
                   session_state, fn_vars, catalog>>

\* app.py:370-372
AskPrompt(i) ==
    /\ At(i, "ask_prompt")
    /\ LET r == reqs[i]
           table == remember(chat_messages, r.user, "assistant", ConfirmPrompt(r.sql),
                             uuid4(chat_messages))
       IN  /\ chat_messages' = table
           /\ Update(i, Finish([ r EXCEPT !.turns = Append(@, uuid4(chat_messages)) ],
                               WithHistory(Response(200, "", "", ConfirmPrompt(r.sql), ""),
                                           get_history(table, r.user))))
    /\ UNCHANGED <<asked, pending_queries, schema_cache, fetching, select_shape,
                   session_state, fn_vars, catalog>>

\* The call of execute_query at app.py:375 and app.py:441: refused at
\* db.py:225, or run by the database, which carries it out or raises.
Execute(i, ok_label, failed_label) ==
    LET r == reqs[i]
    IN  IF is_invalid[r.sql]
        THEN Update(i, [ r EXCEPT !.pc = failed_label,
                                  !.error = InvalidSqlError(r.sql),
                                  !.calls = Append(@, Call(r.sql, "invalid")) ])
        ELSE \/ Update(i, [ r EXCEPT !.pc = ok_label,
                                     !.calls = Append(@, Call(r.sql, "ok")) ])
             \/ Update(i, [ r EXCEPT !.pc = failed_label,
                                     !.error = DriverError,
                                     !.calls = Append(@, Call(r.sql, "fail")) ])

\* app.py:375
AskExecute(i) ==
    /\ At(i, "ask_execute")
    /\ Execute(i, "ask_results", "ask_failed")
    /\ UNCHANGED <<asked, pending_queries, chat_messages, schema_cache, fetching,
                   select_shape, session_state, fn_vars, catalog>>

\* app.py:376-399
AskResults(i) ==
    /\ At(i, "ask_results")
    /\ LET r == reqs[i]
           shaped == shape_result(execute_query(r.sql, << >>))
           t1 == remember(chat_messages, r.user, "assistant",
                          "Generated SQL:\n" \o r.sql, uuid4(chat_messages))
           t2 == remember(t1, r.user, "assistant",
                          results_payload(r.sql, shaped.columns), uuid4(t1))
       IN  /\ chat_messages' = t2
           /\ Update(i, Finish([ r EXCEPT !.turns = @ \o << uuid4(chat_messages), uuid4(t1) >> ],
                               WithHistory(Response(200, "", "", "", r.sql),
                                           get_history(t2, r.user))))
    /\ UNCHANGED <<asked, pending_queries, schema_cache, fetching, select_shape,
                   session_state, fn_vars, catalog>>

\* app.py:411-416
AskFailed(i) ==
    /\ At(i, "ask_failed")
    /\ \E reply \in HumanizerReplies, suggestions \in suggest_next_commands :
         LET r == [ reqs[i] EXCEPT !.gateway = @ \cup { "rewrite_db_error",
                                                        "suggest_next_commands" } ]
             friendly_error == rewrite_db_error(r.error, reply)
             t1 == remember(chat_messages, r.user, "assistant",
                            "(x) " \o friendly_error, uuid4(chat_messages))
             t2 == remember(t1, r.user, "assistant",
                            "(i) You can try:\n" \o suggestions, uuid4(t1))
         IN  /\ chat_messages' = t2
             /\ Update(i, Finish([ r EXCEPT !.turns = @ \o << uuid4(chat_messages), uuid4(t1) >> ],
                                 WithHistory(Response(500, friendly_error, "", "", r.sql),
                                             get_history(t2, r.user))))
    /\ UNCHANGED <<asked, pending_queries, schema_cache, fetching, select_shape,
                   session_state, fn_vars, catalog>>

----------------------------------------------------------------------------
(* POST /confirm, app.py:423-463.                                          *)

\* app.py:424-434: the session key and the decision are read off the request,
\* then the table and the decision are checked
ConfirmBegin ==
    /\ CanReceive
    /\ \E user \in Users, sf \in SessionFields, d \in Decisions :
         LET r0 == NewRequest(received + 1, "confirm", user, "", sf, d)
             session_id == session_key(r0.session_field)
             decision == lowered[r0.decision_field]
             r == [ r0 EXCEPT !.session_id = session_id, !.decision = decision,
                              !.own_entry = EntryAt(pending_queries, r0.user),
                              !.state_seen = session_state[session_id] ]
         IN  IF ~has_pending(pending_queries, session_id)
             THEN Begin(Finish(r, Response(400, NoPendingError, "", "", "")))
             ELSE IF decision \notin { "yes", "no" }
             THEN Begin(Finish(r, Response(400, BadDecisionError, "", "", "")))
             ELSE IF decision = "no"
             THEN Begin([ r EXCEPT !.pc = "confirm_no" ])
             ELSE Begin([ r EXCEPT !.pc = "confirm_read" ])
    /\ UNCHANGED <<asked, pending_queries, chat_messages, schema_cache, fetching,
                   select_shape, session_state, fn_vars, catalog>>

\* app.py:435
ConfirmNo(i) ==
    /\ At(i, "confirm_no")
    /\ LET r == reqs[i]
       IN  /\ chat_messages' = remember(chat_messages, r.session_id, "assistant",
                                        "Query cancelled.", uuid4(chat_messages))
           /\ Update(i, [ r EXCEPT !.pc = "confirm_no_pop",
                                       !.turns = Append(@, uuid4(chat_messages)) ])
    /\ UNCHANGED <<asked, pending_queries, schema_cache, fetching, select_shape,
                   session_state, fn_vars, catalog>>

\* app.py:436-437
ConfirmNoPop(i) ==
    /\ At(i, "confirm_no_pop")
    /\ LET r == reqs[i]
       IN  /\ pending_queries' = pop(pending_queries, r.session_id)
           /\ session_state' = [ session_state EXCEPT ![r.session_id] = "CANCELLED" ]
           /\ Update(i, Finish([ r EXCEPT !.consumed = EntryAt(pending_queries, r.session_id) ],
                               WithHistory(Response(200, "", "Query cancelled", "", ""),
                                           get_history(chat_messages, r.session_id))))
    /\ UNCHANGED <<asked, chat_messages, schema_cache, fetching, select_shape, fn_vars, catalog>>

\* app.py:439: pending_queries[session_id]["sql"]; when the key has gone since
\* app.py:428 the KeyError ends the request in handle_general_error (app.py:69-75)
ConfirmRead(i) ==
    /\ At(i, "confirm_read")
    /\ LET r == reqs[i]
       IN  IF r.session_id \in DOMAIN pending_queries
           THEN Update(i, [ r EXCEPT !.pc = "confirm_execute",
                                     !.sql = pending_queries[r.session_id].sql,
                                     !.entry = pending_queries[r.session_id].rid ])
           ELSE Update(i, Finish(r, Response(500, "'" \o r.session_id \o "'", "", "", "")))
    /\ UNCHANGED <<asked, pending_queries, chat_messages, schema_cache, fetching,
                   select_shape, session_state, fn_vars, catalog>>

\* app.py:441
ConfirmExecute(i) ==
    /\ At(i, "confirm_execute")
    /\ Execute(i, "confirm_results", "confirm_failed")
    /\ UNCHANGED <<asked, pending_queries, chat_messages, schema_cache, fetching,
                   select_shape, session_state, fn_vars, catalog>>

\* app.py:442-459
ConfirmResults(i) ==
    /\ At(i, "confirm_results")
    /\ LET r == reqs[i]
           shaped == shape_result(execute_query(r.sql, << >>))
           t1 == remember(chat_messages, r.session_id, "assistant",
                          "(ok) Query executed.", uuid4(chat_messages))
           t2 == remember(t1, r.session_id, "assistant",
                          results_payload(r.sql, shaped.columns), uuid4(t1))
       IN  /\ chat_messages' = t2
           /\ pending_queries' = pop(pending_queries, r.session_id)
           /\ session_state' = [ session_state EXCEPT ![r.session_id] = "EXECUTED" ]
           /\ Update(i, Finish([ r EXCEPT !.turns = @ \o << uuid4(chat_messages), uuid4(t1) >>,
                                          !.consumed = EntryAt(pending_queries, r.session_id) ],
                               WithHistory(Response(200, "", "", "", ""),
                                           get_history(t2, r.session_id))))
    /\ UNCHANGED <<asked, schema_cache, fetching, select_shape, fn_vars, catalog>>

\* app.py:460-463
ConfirmFailed(i) ==
    /\ At(i, "confirm_failed")
    /\ \E reply \in HumanizerReplies :
         LET r == [ reqs[i] EXCEPT !.gateway = @ \cup { "rewrite_db_error" } ]
             friendly_error == rewrite_db_error(r.error, reply)
             table == remember(chat_messages, r.session_id, "assistant",
                               "(x) " \o friendly_error, uuid4(chat_messages))
         IN  /\ chat_messages' = table
             /\ Update(i, Finish([ r EXCEPT !.turns = Append(@, uuid4(chat_messages)) ],
                                 WithHistory(Response(500, friendly_error, "", "", ""),
                                             get_history(table, r.session_id))))
    /\ UNCHANGED <<asked, pending_queries, schema_cache, fetching, select_shape,
                   session_state, fn_vars, catalog>>

----------------------------------------------------------------------------
(* POST /cancel, app.py:468-477.                                           *)

\* app.py:469-473
CancelBegin ==
    /\ CanReceive
    /\ \E user \in Users, sf \in SessionFields :
         LET r0 == NewRequest(received + 1, "cancel", user, "", sf, "")
             session_id == session_key(r0.session_field)
             r == [ r0 EXCEPT !.session_id = session_id,
                              !.own_entry = EntryAt(pending_queries, r0.user),
                              !.state_seen = session_state[session_id] ]
         IN  IF ~has_pending(pending_queries, session_id)
             THEN Begin(Finish(r, Response(400, NoPendingError, "", "", "")))
             ELSE Begin([ r EXCEPT !.pc = "cancel_pop" ])
    /\ UNCHANGED <<asked, pending_queries, chat_messages, schema_cache, fetching,
                   select_shape, session_state, fn_vars, catalog>>

\* app.py:475-477
CancelPop(i) ==
    /\ At(i, "cancel_pop")
    /\ LET r == reqs[i]
           table == remember(chat_messages, r.session_id, "assistant",
                             "(x) Query cancelled.", uuid4(chat_messages))
       IN  /\ pending_queries' = pop(pending_queries, r.session_id)
           /\ session_state' = [ session_state EXCEPT ![r.session_id] = "CANCELLED" ]
           /\ chat_messages' = table
           /\ Update(i, Finish([ r EXCEPT !.turns = Append(@, uuid4(chat_messages)),
                                          !.consumed = EntryAt(pending_queries, r.session_id) ],
                               WithHistory(Response(200, "", "Query cancelled", "", ""),
                                           get_history(table, r.session_id))))
    /\ UNCHANGED <<asked, schema_cache, fetching, select_shape, fn_vars, catalog>>

----------------------------------------------------------------------------
(* POST /chat, app.py:297-326.                                             *)

\* what a client may put into the messageId, content and role fields; "" is
\* a missing field
ChatIds == { "", "a" }

ChatContents == { "", "hi", "42" }

ChatRoles == { "", "user" }

\* app.py:300-310 and 318-320: with a content the turn is saved under the
\* client's message id, or under a fresh one; without, the schema is looked up
ChatBegin ==
    /\ CanReceive
    /\ \E user \in Users, id \in ChatIds, content \in ChatContents, role_field \in ChatRoles :
         LET role == IF role_field = "" THEN "assistant" ELSE role_field
             message_id == IF id = "" THEN uuid4(chat_messages) ELSE id
             r == [ NewRequest(received + 1, "chat", user, content, "", "")
                      EXCEPT !.message_id = id, !.role = role ]
         IN  IF content # ""
             THEN /\ chat_messages' = remember(chat_messages, user, role, content, message_id)
                  /\ Begin([ r EXCEPT !.pc = "chat_saved", !.turns = << message_id >> ])
             ELSE /\ chat_messages' = chat_messages
                  /\ IF absent(get_cached_schema(schema_cache, user))
                     THEN Begin([ r EXCEPT !.pc = "chat_fetch" ])
                     ELSE Begin([ r EXCEPT !.pc = "chat_ready" ])
    /\ UNCHANGED <<asked, pending_queries, schema_cache, fetching, select_shape,
                   session_state, fn_vars, catalog>>

\* app.py:311
ChatSaved(i) ==
    /\ At(i, "chat_saved")
    /\ Update(i, Finish(reqs[i], WithHistory(Response(200, "", "saved", "", ""),
                                             get_history(chat_messages, reqs[i].user))))
    /\ UNCHANGED <<asked, pending_queries, chat_messages, schema_cache, fetching,
                   select_shape, session_state, fn_vars, catalog>>

\* app.py:320, db.py:207-210: the catalog is read and the entry written, or
\* the read fails and handle_general_error answers (app.py:69-75)
ChatFetch(i) ==
    /\ At(i, "chat_fetch")
    /\ \E fetched \in fetch_schema_info :
         /\ schema_cache' = cache_schema_for_user(schema_cache, reqs[i].user, fetched)
         /\ IF fetched # FetchFailure
            THEN Update(i, [ reqs[i] EXCEPT !.pc = "chat_ready" ])
            ELSE Update(i, Finish(reqs[i], Response(500, fetched, "", "", "")))
    /\ UNCHANGED <<asked, pending_queries, chat_messages, fetching, select_shape,
                   session_state, fn_vars, catalog>>

\* app.py:322-326
ChatReady(i) ==
    /\ At(i, "chat_ready")
    /\ Update(i, Finish(reqs[i],
                        WithHistory(Response(200, "", "Schema cached and ready", "", ""),
                                    get_history(chat_messages, reqs[i].user))))
    /\ UNCHANGED <<asked, pending_queries, chat_messages, schema_cache, fetching,
                   select_shape, session_state, fn_vars, catalog>>

\* POST /chat/clear, app.py:561-566
ChatClear ==
    /\ CanReceive
    /\ \E user \in Users :
         LET r == NewRequest(received + 1, "chat_clear", user, "", "", "")
             mine == get_chat_history(chat_messages, user)
         IN  /\ chat_messages' = clear_chat_history(chat_messages, user)
             /\ Begin(Finish([ r EXCEPT !.removed = [ k \in 1..Len(mine) |-> mine[k].message_id ] ],
                             Response(200, "", "history cleared for user " \o user, "", "")))
    /\ UNCHANGED <<asked, pending_queries, schema_cache, fetching, select_shape,
                   session_state, fn_vars, catalog>>

NextChat ==
    \/ ChatBegin
    \/ ChatClear
    \/ \E i \in Threads :
         \/ ChatSaved(i)
         \/ ChatFetch(i)
         \/ ChatReady(i)

----------------------------------------------------------------------------
(* POST /generate_chart, app.py:486-535.                                   *)

\* what a client may put into the query field
ChartQueries == { "", "orders per user" }

\* generate_sql_and_chart is imported at app.py:27 and is not defined in
\* nlp_to_sql.py: the call at app.py:501 raises, or hands back a meta whose
\* "sql" is any text -- none, a read, a mutating statement, a failure value
ChartSqls == { "", ReadSql, WriteSql, FailureValue, UngroundedFailure }

ChartGenerationError == "name 'generate_sql_and_chart' is not defined"

\* app.py:487-497: the query is checked and the schema looked up
ChartBegin ==
    /\ CanReceive
    /\ \E user \in Users, query \in ChartQueries :
         LET r == NewRequest(received + 1, "chart", user, query, "", "")
             schema == get_cached_schema(schema_cache, r.user)
         IN  IF query = ""
             THEN Begin(Finish(r, Response(400, "No query provided", "", "", "")))
             ELSE IF absent(schema)
             THEN Begin([ r EXCEPT !.pc = "chart_fetch" ])
             ELSE Begin([ r EXCEPT !.pc = "chart_generate" ])
    /\ UNCHANGED <<asked, pending_queries, chat_messages, schema_cache, fetching,
                   select_shape, session_state, fn_vars, catalog>>

\* app.py:497, db.py:207-210: the catalog is read and the entry written, or
\* the read fails and handle_general_error answers (app.py:69-75)
ChartFetch(i) ==
    /\ At(i, "chart_fetch")
    /\ \E fetched \in fetch_schema_info :
         /\ schema_cache' = cache_schema_for_user(schema_cache, reqs[i].user, fetched)
         /\ IF fetched # FetchFailure
            THEN Update(i, [ reqs[i] EXCEPT !.pc = "chart_generate" ])
            ELSE Update(i, Finish(reqs[i], Response(500, fetched, "", "", "")))
    /\ UNCHANGED <<asked, pending_queries, chat_messages, fetching, select_shape,
                   session_state, fn_vars, catalog>>

\* app.py:501-511 and 534-535
ChartGenerate(i) ==
    /\ At(i, "chart_generate")
    /\ \/ Update(i, Finish(reqs[i], Response(500, ChartGenerationError, "", "", "")))
       \/ \E sql_query \in ChartSqls :
            LET r == [ reqs[i] EXCEPT !.sql = sql_query ]
            IN  IF sql_query = "" \/ is_invalid[sql_query]
                THEN Update(i, Finish(r, Response(500, "Failed to generate SQL", "", "", "")))
                ELSE IF is_write[sql_query]
                THEN Update(i, Finish(r, Response(403, "Read-only endpoint", "", "", "")))
                ELSE Update(i, [ r EXCEPT !.pc = "chart_execute" ])
    /\ UNCHANGED <<asked, pending_queries, chat_messages, schema_cache, fetching,
                   select_shape, session_state, fn_vars, catalog>>

\* app.py:514
ChartExecute(i) ==
    /\ At(i, "chart_execute")
    /\ Execute(i, "chart_results", "chart_failed")
    /\ UNCHANGED <<asked, pending_queries, chat_messages, schema_cache, fetching,
                   select_shape, session_state, fn_vars, catalog>>

\* app.py:515-533
ChartResults(i) ==
    /\ At(i, "chart_results")
    /\ Update(i, Finish(reqs[i], Response(200, "", "", "", reqs[i].sql)))
    /\ UNCHANGED <<asked, pending_queries, chat_messages, schema_cache, fetching,
                   select_shape, session_state, fn_vars, catalog>>

\* app.py:534-535: the answer is str(e) as the adapter raised it
ChartFailed(i) ==
    /\ At(i, "chart_failed")
    /\ Update(i, Finish(reqs[i], Response(500, reqs[i].error, "", "", "")))
    /\ UNCHANGED <<asked, pending_queries, chat_messages, schema_cache, fetching,
                   select_shape, session_state, fn_vars, catalog>>

NextChart ==
    \/ CatalogChange
    \/ ChatSchemaGet
    \/ ChatSchemaFetch
    \/ ChartBegin
    \/ \E i \in Threads :
         \/ ChartFetch(i)
         \/ ChartGenerate(i)
         \/ ChartExecute(i)
         \/ ChartResults(i)
         \/ ChartFailed(i)

----------------------------------------------------------------------------
(* The Synthesizer by itself, nlp_to_sql.py:137-222: a caller hands it a   *)
(* conversation and a schema, and the gateway answers its prompts.         *)

\* the database at hand as fetch_schema_info describes it, and the schema of
\* a database without tables
Catalog ==
    ("users" :> << "id", "active", "updated_at" >>) @@ ("Orders" :> << "id", "Total" >>)

EmptySchema == << >>

SynSchemas == { Catalog, EmptySchema }

Turn(role, content) == [ role |-> role, content |-> content ]

\* the conversations handed to the Synthesizer
SynConversations ==
    { << >>,
      << Turn("user", "show me all tables") >>,
      << Turn("user", "list the big spenders") >>,
      << Turn("assistant", "Which table should I use?") >>,
      << Turn("user", "42") >>,
      << Turn("user", "show users"),
         Turn("assistant", "{\"type\": \"results\", \"sql\": \"SELECT * FROM Orders\"}"),
         Turn("user", "now the totals") >>,
      << Turn("user", "compare Orders and users"),
         Turn("user", "delete the inactive ones") >> }

SynReplies ==
    { Reply(TRUE, "SELECT * FROM nonexistent_table;"),
      Reply(TRUE, "~~~sql SELECT ID FROM ORDERS ~~~"),
      Reply(TRUE, "DROP TABLE old_stuff"),
      Reply(TRUE, "SELECT 1 AS valid"),
      Reply(TRUE, ""),
      Reply(FALSE, "429 quota exceeded") }

SynIdle ==
    [ pc |-> "idle", chat_history |-> << >>, schema |-> EmptySchema, replies |-> << >>,
      last_user |-> None,  \* the question put into the prompt
      calls |-> << >>,     \* the prompts handed to the gateway
      sql |-> "",          \* the first answer, fences stripped
      hint |-> None,       \* inferred_table at nlp_to_sql.py:209
      result |-> "" ]

SynReturn(call, result) == [ call EXCEPT !.pc = "return", !.result = result ]

\* nlp_to_sql.py:139-170: the operative request and the two heuristics
SynCall ==
    /\ syn.pc = "idle"
    /\ \E chat_history \in SynConversations, schema \in SynSchemas,
          replies \in [ 1..2 -> SynReplies ] :
         LET filtered_history == filter_history_for_llm(chat_history)
             last_user == last_user_of(filtered_history)
             text == IF last_user = None THEN "" ELSE last_user
             call == [ SynIdle EXCEPT !.chat_history = chat_history, !.schema = schema,
                                      !.replies = replies, !.last_user = last_user ]
         IN  IF json_loads(text) # "str"
             THEN syn' = [ call EXCEPT !.pc = "raised",
                                       !.result = "'int' object has no attribute 'lower'" ]
             ELSE IF _is_show_tables_intent(text)
             THEN syn' = SynReturn(call, CatalogSql)
             ELSE IF _is_write_intent(text)
             THEN \E inferred_table \in _find_table_in_history(schema, filtered_history) :
                    IF inferred_table # None /\ ~Contains(text, inferred_table)
                    THEN syn' = [ call EXCEPT !.pc = "first",
                                              !.last_user = text \o " into " \o inferred_table ]
                    ELSE syn' = [ call EXCEPT !.pc = "first" ]
             ELSE syn' = [ call EXCEPT !.pc = "first" ]
    /\ UNCHANGED <<gate_vars, det, norm, wq_vars, clar, hum>>

\* nlp_to_sql.py:193-211 and 219-222: the first answer of the gateway and its
\* validation against the schema
SynFirst ==
    /\ syn.pc = "first"
    /\ LET reply == syn.replies[1]
           call == [ syn EXCEPT !.calls = Append(@, [ question |-> syn.last_user,
                                                      hint |-> None ]) ]
           sql == _strip_markdown_fences(strip(reply.text))
       IN  IF ~reply.ok
           THEN syn' = SynReturn(call, gateway_failure(reply.text))
           ELSE IF tables_of(syn.schema) = { } \/ grounded(sql, syn.schema)
           THEN syn' = SynReturn([ call EXCEPT !.sql = sql ], sql)
           ELSE \E inferred_table \in
                     _find_table_in_history(syn.schema, filter_history_for_llm(syn.chat_history)) :
                  IF inferred_table # None
                  THEN syn' = [ call EXCEPT !.pc = "retry", !.sql = sql,
                                            !.hint = inferred_table ]
                  ELSE syn' = SynReturn([ call EXCEPT !.sql = sql ], ungrounded_failure(sql))
    /\ UNCHANGED <<gate_vars, det, norm, wq_vars, clar, hum>>

\* nlp_to_sql.py:211-219: the one retry, with the hint
SynRetry ==
    /\ syn.pc = "retry"
    /\ LET reply == syn.replies[2]
           call == [ syn EXCEPT !.calls = Append(@, [ question |-> syn.last_user,
                                                      hint |-> syn.hint ]) ]
           retry_sql == _strip_markdown_fences(strip(reply.text))
       IN  IF reply.ok /\ grounded(retry_sql, syn.schema)
           THEN syn' = SynReturn(call, retry_sql)
           ELSE syn' = SynReturn(call, ungrounded_failure(syn.sql))
    /\ UNCHANGED <<gate_vars, det, norm, wq_vars, clar, hum>>

NextSyn == SynCall \/ SynFirst \/ SynRetry

----------------------------------------------------------------------------
(* The Clarifier Gate by itself, nlp_to_sql.py:224-266, with the branch    *)
(* ask takes on its answer (app.py:356-361).                               *)

\* nlp_to_sql.py:259-266 with the call of upper() forgotten
maybe_generate_clarifier_case_sensitive(reply) ==
    IF ~reply.ok THEN None
    ELSE IF startswith(strip(reply.text), "CLEAR") THEN None
    ELSE strip(reply.text)

\* nlp_to_sql.py:259-266
maybe_generate_clarifier(reply) ==
    IF ~reply.ok THEN None
    ELSE IF startswith(upper(strip(reply.text)), "CLEAR") THEN None
    ELSE strip(reply.text)

\* the answers of the gateway to the clarifier's prompt
ClarReplies ==
    { Reply(TRUE, head \o word \o tail) :
        head \in { "", " ", "Which " },
        word \in { "CLEAR", "clear", "Clear", "CLE", "unclear", "" },
        tail \in { "", "ly", " ", " table?" } }
      \cup { Reply(FALSE, "429 quota exceeded") }

ClarIdle == [ pc |-> "idle", reply |-> Reply(FALSE, ""), result |-> None, next |-> "" ]

\* the gateway answers the prompt of nlp_to_sql.py:238-253
ClarCall ==
    /\ clar.pc = "idle"
    /\ \E reply \in ClarReplies : clar' = [ ClarIdle EXCEPT !.pc = "call", !.reply = reply ]
    /\ UNCHANGED <<gate_vars, det, norm, wq_vars, syn, hum>>

\* nlp_to_sql.py:259-266
ClarReturn ==
    /\ clar.pc = "call"
    /\ clar' = [ clar EXCEPT !.pc = "return", !.result = maybe_generate_clarifier(clar.reply) ]
    /\ UNCHANGED <<gate_vars, det, norm, wq_vars, syn, hum>>

\* app.py:357: ask stops with the question, or goes on to the Synthesizer
ClarBranch ==
    /\ clar.pc = "return"
    /\ clar' = [ clar EXCEPT !.pc = "done", !.next = after_clarifier(clar.result) ]
    /\ UNCHANGED <<gate_vars, det, norm, wq_vars, syn, hum>>

NextClar == ClarCall \/ ClarReturn \/ ClarBranch

----------------------------------------------------------------------------
(* The Error Humanizer by itself, nlp_to_sql.py:268-301.                   *)

\* str(e) of the failures of execute_query
ErrorTexts ==
    { DriverError, InvalidSqlError(FailureValue), "", "connection refused" }

\* the answers of the gateway to the humanizer's prompt
HumReplies ==
    HumanizerReplies
      \cup { Reply(TRUE, ""), Reply(TRUE, " Check the table name. "),
             Reply(FALSE, "429 quota exceeded") }

\* normalized conversations (app.py:245-264) handed to rewrite_db_error
HumConversations ==
    { << >>,
      << Turn("user", "show users") >>,
      << Turn("user", "42"), Turn("assistant", "(x) Query cancelled.") >>,
      << Turn("user", "show users"),
         Turn("assistant", "{\"type\": \"results\", \"sql\": \"SELECT * FROM users\"}") >> }

HumIdle ==
    [ pc |-> "idle", error_message |-> "", chat_history |-> << >>,
      reply |-> Reply(FALSE, ""), prompt |-> << >>, result |-> "" ]

\* nlp_to_sql.py:270-291: the conversation is filtered and put into the prompt
HumCall ==
    /\ hum.pc = "idle"
    /\ \E error_message \in ErrorTexts, chat_history \in HumConversations,
          reply \in HumReplies :
         hum' = [ HumIdle EXCEPT !.pc = "call", !.error_message = error_message,
                                 !.chat_history = chat_history, !.reply = reply,
                                 !.prompt = filter_history_for_llm(chat_history) ]
    /\ UNCHANGED <<gate_vars, det, norm, wq_vars, syn, clar>>

\* nlp_to_sql.py:297-301
HumReturn ==
    /\ hum.pc = "call"
    /\ hum' = [ hum EXCEPT !.pc = "return",
                           !.result = rewrite_db_error(hum.error_message, hum.reply) ]
    /\ UNCHANGED <<gate_vars, det, norm, wq_vars, syn, clar>>

NextHum == HumCall \/ HumReturn

----------------------------------------------------------------------------
(* The chart detector by itself, nlp_to_sql.py:337-352.                    *)

\* a value of a result set: its Python type and how it is written
Cell(py, text) == [ py |-> py, text |-> text ]

NullCell == Cell("NoneType", "None")

\* isinstance(v, (int, float)); bool is a subclass of int
is_int_or_float(v) == v.py \in { "int", "float", "bool" }

\* str.isdigit() on the texts of the model
isdigit(text) ==
    /\ Len(text) > 0
    /\ \A k \in 1..Len(text) : Contains(Digits, CharAt(text, k))

\* v.replace('.', '', 1)
drop_first_dot(text) ==
    LET at == Find(text, ".", 1)
    IN  IF at = 0
        THEN text
        ELSE SubSeq(text, 1, at - 1) \o SubSeq(text, at + 1, Len(text))

\* nlp_to_sql.py:345
is_numeric(v) ==
    \/ is_int_or_float(v)
    \/ v.py = "str" /\ isdigit(drop_first_dot(v.text))

NotChartable == [ chartable |-> FALSE, kind |-> None ]

\* rows[:10]
SampleSize == 10

\* nlp_to_sql.py:337-352; r[1] raises for a row without a second value
detect_chartable(columns, rows) ==
    IF Len(columns) = 0 \/ Len(rows) = 0
    THEN NotChartable
    ELSE IF Len(columns) < 2
    THEN NotChartable
    ELSE LET sample == SubSeq(rows, 1, IF Len(rows) < SampleSize THEN Len(rows) ELSE SampleSize)
             raised == \E k \in 1..Len(sample) : Len(sample[k]) < 2
             numeric == /\ ~raised
                        /\ \A k \in 1..Len(sample) :
                             sample[k][2] # NullCell => is_numeric(sample[k][2])
         IN  IF ~numeric
             THEN NotChartable
             ELSE [ chartable |-> TRUE, kind |-> "bar" ]

\* the values the second column is filled with
DetCells ==
    { Cell("int", "5"), Cell("float", "2.5"), Cell("bool", "True"), NullCell,
      Cell("Decimal", "12.50"), Cell("str", "7"), Cell("str", "1.5"), Cell("str", "x"),
      Cell("str", "1.2.3"), Cell("str", "") }

DetColumns ==
    { << >>, << "month" >>, << "month", "count" >>, << "month", "count", "note" >> }

Months ==
    << "Jan", "Feb", "Mar", "Apr", "May", "Jun", "Jul", "Aug", "Sep", "Oct", "Nov", "Dec" >>

\* the row at place k of a result set of the given width whose second value is v
DetRow(k, v, width) ==
    SubSeq(<< Cell("str", Months[k]), v, Cell("str", "n") >>, 1, width)

\* how many rows lead a result set, all with the same second value
LeadLengths == { 0, 9, 10 }

\* how many rows with second values of any kind follow them
MaxTail == 2

\* the second values of the rows of a result set
DetSeconds ==
    { [ k \in 1..n |-> lead ] \o tail :
        n \in LeadLengths, lead \in { Cell("int", "5"), NullCell },
        tail \in UNION { [ 1..m -> DetCells ] : m \in 0..MaxTail } }

DetIdle ==
    [ pc |-> "idle", columns |-> << >>, rows |-> << >>, result |-> NotChartable ]

DetCall ==
    /\ det.pc = "idle"
    /\ \E columns \in DetColumns, seconds \in DetSeconds :
         LET width == IF Len(columns) = 0 THEN 1 ELSE Len(columns)
         IN  det' = [ DetIdle EXCEPT !.pc = "call", !.columns = columns,
                        !.rows = [ k \in 1..Len(seconds) |-> DetRow(k, seconds[k], width) ] ]
    /\ UNCHANGED <<gate_vars, wq_vars, syn, clar, hum, norm>>

DetReturn ==
    /\ det.pc = "call"
    /\ det' = [ det EXCEPT !.pc = "return", !.result = detect_chartable(det.columns, det.rows) ]
    /\ UNCHANGED <<gate_vars, wq_vars, syn, clar, hum, norm>>

NextDet == DetCall \/ DetReturn

----------------------------------------------------------------------------
(* normalize_history by itself, app.py:245-264.                            *)

\* a record of the given keys and values, the absent values left out
Dict(keys, values) ==
    LET present == { k \in 1..Len(keys) : values[k] # "<absent>" }
    IN  [ key \in { keys[k] : k \in present } |->
            values[CHOOSE k \in present : keys[k] = key] ]

\* two records put together; their keys differ
Merge(a, b) == [ key \in DOMAIN a \cup DOMAIN b |-> IF key \in DOMAIN a THEN a[key] ELSE b[key] ]

RoleParts ==
    { Dict(<< "role", "type" >>, << r, t >>) :
        r \in { "<absent>", "", "user" }, t \in { "<absent>", "system" } }

ContentParts ==
    { Dict(<< "content", "text", "message" >>, << c, t, m >>) :
        c \in { "<absent>", "", "hi" }, t \in { "<absent>", "t" }, m \in { "<absent>", "m" } }

IdParts ==
    { Dict(<< "message_id", "messageId", "id" >>, << a, b, c >>) :
        a \in { "<absent>", None, "a" }, b \in { "<absent>", "b" }, c \in { "<absent>", "", "c" } }

TimeParts ==
    { Dict(<< "timestamp", "time" >>, << a, b >>) :
        a \in { "<absent>", "2024-01-01T00:00:00" }, b \in { "<absent>", "noon" } }

\* the dictionaries a caller hands over
NormDicts ==
    { Merge(Merge(r, c), Merge(i, t)) :
        r \in RoleParts, c \in ContentParts, i \in IdParts, t \in TimeParts }

\* str(entry) of a text, a number, None and a list
NormOthers == { [ str |-> "hello" ], [ str |-> "42" ], [ str |-> "None" ], [ str |-> "['a']" ] }

\* the entries of the longer histories
NormFew ==
    { [ role |-> "user", content |-> "hi" ],
      [ type |-> "system", text |-> "t", id |-> "c" ],
      [ str |-> "hello" ],
      [ str |-> "None" ] }

MaxHistory == 3

NormHistories ==
    { << >> }
      \cup { << entry >> : entry \in NormDicts \cup NormOthers }
      \cup UNION { [ 1..n -> NormFew ] : n \in 2..MaxHistory }

NormIdle == [ pc |-> "idle", raw_history |-> << >>, result |-> << >> ]

NormCall ==
    /\ norm.pc = "idle"
    /\ \E raw_history \in NormHistories :
         norm' = [ NormIdle EXCEPT !.pc = "call", !.raw_history = raw_history ]
    /\ UNCHANGED <<gate_vars, wq_vars, syn, clar, hum, det>>

NormReturn ==
    /\ norm.pc = "call"
    /\ norm' = [ norm EXCEPT !.pc = "return", !.result = normalize_history(norm.raw_history) ]
    /\ UNCHANGED <<gate_vars, wq_vars, syn, clar, hum, det>>

NextNorm == NormCall \/ NormReturn

----------------------------------------------------------------------------
(* The server.                                                             *)

\* app.py:234 and db.py:14: both tables start empty; no request has come in
InitGate ==
    /\ pending_queries = << >>
    /\ chat_messages = << >>
    /\ schema_cache = [ u \in Users |-> None ]
    /\ reqs = [ t \in Threads |-> Idle ]
    /\ fetching = { }
    /\ received = 0
    /\ asked = 0
    /\ last = NewRequest(0, "none", "", "", "", "")
    /\ session_state = [ k \in SessionKeys |-> "NONE" ]
    /\ catalog = TheSchema

WqIdle == wq_query = "" /\ wq_pc = "idle" /\ wq_result = FALSE

\* no function has been called by itself
FnIdle ==
    /\ WqIdle
    /\ syn = SynIdle
    /\ clar = ClarIdle
    /\ hum = HumIdle
    /\ det = DetIdle
    /\ norm = NormIdle

\* the two shapes of the adapter's answer to a SELECT: the one db.py:240
\* builds, and the one the handlers of app.py are written for
AdapterShapes == { "map", "rows" }

Init == InitGate /\ select_shape \in AdapterShapes /\ FnIdle

InitRows == InitGate /\ select_shape = "rows" /\ FnIdle

Next ==
    \/ ChatSchemaGet
    \/ ChatSchemaFetch
    \/ AskBegin
    \/ ConfirmBegin
    \/ CancelBegin
    \/ \E i \in Threads :
         \/ AskRemember(i)
         \/ AskHistory(i)
         \/ AskClarifier(i)
         \/ AskClarified(i)
         \/ AskSynth(i)
         \/ AskRefuse(i)
         \/ AskPrompt(i)
         \/ AskExecute(i)
         \/ AskResults(i)
         \/ AskFailed(i)
         \/ ConfirmNo(i)
         \/ ConfirmNoPop(i)
         \/ ConfirmRead(i)
         \/ ConfirmExecute(i)
         \/ ConfirmResults(i)
         \/ ConfirmFailed(i)
         \/ CancelPop(i)

\* ask requests only, of which two may be served side by side
NextAsks ==
    \/ ChatSchemaGet
    \/ ChatSchemaFetch
    \/ AskBeginAmongAsks
    \/ \E i \in Threads :
         \/ AskRemember(i)
         \/ AskHistory(i)
         \/ AskClarifier(i)
         \/ AskClarified(i)
         \/ AskSynth(i)
         \/ AskRefuse(i)
         \/ AskPrompt(i)
         \/ AskExecute(i)
         \/ AskResults(i)
         \/ AskFailed(i)

----------------------------------------------------------------------------
(* is_write_query by itself: a caller hands it a text and gets the answer. *)

\* the pieces the texts handed to is_write_query are joined from
Fragments == { "select ", "x", "_", " ", "1", "drop", "Update", "CALL" }

RECURSIVE Joined(_)
Joined(n) ==
    IF n = 0 THEN { "" }
    ELSE Joined(n - 1) \cup { p \o f : p \in Joined(n - 1), f \in Fragments }

Queries == Joined(MaxPieces)

WqCall ==
    /\ wq_pc = "idle"
    /\ wq_query' \in Queries
    /\ wq_pc' = "call"
    /\ wq_result' = FALSE
    /\ UNCHANGED <<gate_vars, det, norm, syn, clar, hum>>

WqReturn ==
    /\ wq_pc = "call"
    /\ wq_result' = is_write_query(wq_query)
    /\ wq_pc' = "return"
    /\ wq_query' = wq_query
    /\ UNCHANGED <<gate_vars, det, norm, syn, clar, hum>>

InitWG == InitGate /\ select_shape = "map" /\ FnIdle

NextWG == WqCall \/ WqReturn

\* is_write_query called on each of the texts of Queries
SpecWG == InitWG /\ [][NextWG]_vars

\* the server as it starts, for the functions called by themselves
InitFn == InitGate /\ select_shape = "map" /\ FnIdle

\* generate_sql_from_chat_history called on each conversation, schema and pair
\* of gateway answers
SpecSyn == InitFn /\ [][NextSyn]_vars

\* ask requests served side by side
SpecAsks == Init /\ [][NextAsks]_vars

\* the calls of normalize_history
SpecNorm == InitFn /\ [][NextNorm]_vars

\* the calls of detect_chartable
SpecDet == InitFn /\ [][NextDet]_vars

\* chat requests served side by side
SpecChat == InitFn /\ [][NextChat]_vars

\* generate_chart and chat_schema requests served side by side
SpecChart == InitFn /\ [][NextChart]_vars

\* generate_chart requests served side by side with ask, confirm and cancel
\* requests
NextGated ==
    \/ Next
    \/ ChartBegin
    \/ \E i \in Threads :
         \/ ChartFetch(i)
         \/ ChartGenerate(i)
         \/ ChartExecute(i)
         \/ ChartResults(i)
         \/ ChartFailed(i)

SpecGated == InitRows /\ [][NextGated]_vars

\* maybe_generate_clarifier called on each answer of the gateway
SpecClar == InitFn /\ [][NextClar]_vars

\* rewrite_db_error called on each error text, conversation and answer
SpecHum == InitFn /\ [][NextHum]_vars

----------------------------------------------------------------------------
(* The specifications of the handlers.                                     *)

\* the handlers over either adapter; select_shape = "map" is src/backend as
\* it stands
Spec == Init /\ [][Next]_vars

\* the handlers over the adapter that answers a SELECT with a list of rows,
\* the only one under which ask stores a pending entry
SpecRows == InitRows /\ [][Next]_vars

----------------------------------------------------------------------------
(* What the requests have done, read off their records.                    *)

\* the requests being served, and the one answered last
AllRequests == { reqs[t] : t \in Threads } \cup { last }

Answered(r) == r.pc = "done"

\* the calls of execute_query request r made at app.py:375 or app.py:441
CallsOf(r) == { r.calls[k] : k \in 1..Len(r.calls) }

\* the rows of the chat store that request r appended
TurnsOf(r) ==
    { chat_messages[k] : k \in { j \in 1..Len(chat_messages) :
          \E n \in 1..Len(r.turns) : chat_messages[j].message_id = r.turns[n] } }

\* the request that came in with this step
Arrived == IF last'.rid = received' THEN last' ELSE reqs'[FreeThread]

----------------------------------------------------------------------------
(* The Write Gate around ask, confirm and cancel.                          *)

\* C1: a statement that is_write_query classifies as mutating is never handed
\* to execute_query by an ask request (nor is the role lookup of ask such a
\* statement). Every call that carries one is made by a confirm request whose
\* decision is 'yes' and that read the statement out of the pending entry
\* under its session key, where an ask request had stored it before.
C1_MutatingOnlyOnConfirm ==
    /\ ~is_write[RoleLookupSql]
    /\ \A r \in AllRequests : \A c \in CallsOf(r) :
         is_write[c.sql] =>
            /\ r.kind = "confirm"
            /\ r.decision = "yes"
            /\ r.entry # 0
            /\ c.sql = r.sql

\* a confirm request has run a mutating statement on the database
C1_Witness ==
    \E r \in AllRequests : \E c \in CallsOf(r) :
        r.kind = "confirm" /\ is_write[c.sql] /\ Ran(c)

\* C2, for the identities whose role is admin (for the others see C10): an
\* ask request whose synthesized statement is classified as mutating has, once
\* it is answered, stored a pending entry with that statement, appended the
\* confirmation prompt as an assistant turn, answered 200 with the prompt, and
\* called execute_query for no statement.
C2_MutatingAskStoresPending ==
    \A r \in AllRequests :
        ( /\ r.kind = "ask"
          /\ Answered(r)
          /\ r.sql # ""
          /\ is_write[r.sql]
          /\ role_of[r.user] = "admin" ) =>
            /\ r.stored = r.rid
            /\ r.resp.code = 200
            /\ r.resp.clarifier = ConfirmPrompt(r.sql)
            /\ \E row \in TurnsOf(r) :
                 row.role = "assistant" /\ row.content = ConfirmPrompt(r.sql)
            /\ r.calls = << >>

C4_Step ==
    ( /\ received' = received + 1
      /\ Arrived.kind \in { "confirm", "cancel" }
      /\ Arrived.session_id \notin DOMAIN pending_queries ) =>
        /\ Answered(Arrived)
        /\ Arrived.resp.code = 400
        /\ Arrived.resp.error = NoPendingError
        /\ Arrived.calls = << >>
        /\ Arrived.turns = << >>
        /\ pending_queries' = pending_queries
        /\ chat_messages' = chat_messages
        /\ schema_cache' = schema_cache

\* C4: a confirm request (whatever its decision) or a cancel request for a
\* session key with no pending entry is answered 400 "No pending query for
\* this session" in the step it comes in, having called execute_query for
\* nothing and appended no turn, and it leaves the pending table, the chat
\* store and the schema cache as they were.
C4_NoPendingRejected == [][C4_Step]_vars

\* a confirm or cancel request has been rejected for want of a pending entry
C4_Witness ==
    /\ last.kind \in { "confirm", "cancel" }
    /\ last.resp.code = 400
    /\ last.resp.error = NoPendingError

\* C5: a confirm request with decision 'yes' that comes in for a session key
\* whose entry was last cancelled (by a confirm with decision 'no' or by a
\* cancel), no ask having stored a new one since, is answered 400 "No pending
\* query for this session" at once and calls execute_query for nothing.
C5_NoRetryAfterCancel ==
    \A r \in AllRequests :
        (r.kind = "confirm" /\ r.decision = "yes" /\ r.state_seen = "CANCELLED") =>
            /\ Answered(r)
            /\ r.resp.code = 400
            /\ r.resp.error = NoPendingError
            /\ r.calls = << >>

\* a 'yes' has come in for a session whose entry had been cancelled
C5_Witness ==
    /\ last.kind = "confirm"
    /\ last.decision = "yes"
    /\ last.state_seen = "CANCELLED"
    /\ last.resp.code = 400

Cancelled(r, e) ==
    /\ r.kind \in { "confirm", "cancel" }
    /\ Answered(r)
    /\ e # 0
    /\ r.consumed = e
    /\ r.resp.message = "Query cancelled"

\* a step in which the confirm request of thread i has its statement run
Runs(i) ==
    /\ reqs[i].pc = "confirm_execute"
    /\ Len(reqs'[i].calls) = Len(reqs[i].calls) + 1
    /\ Ran(reqs'[i].calls[Len(reqs'[i].calls)])

Executed(r) ==
    /\ r.kind = "confirm"
    /\ r.entry # 0
    /\ \E c \in CallsOf(r) : c.outcome = "ok"

C10_NonAdminRefused ==
    \A r \in AllRequests :
        ( /\ r.kind = "ask"
          /\ r.sql # ""
          /\ is_write[r.sql]
          /\ role_of[r.user] # "admin" ) =>
            /\ r.stored = 0
            /\ EntryAt(pending_queries, r.user) # r.rid
            /\ r.calls = << >>
            /\ Answered(r) =>
                 /\ r.resp.code = 403
                 /\ r.resp.error = AdminOnlyMessage
                 /\ \E row \in TurnsOf(r) :
                      row.role = "assistant" /\ row.content = AdminOnlyMessage

\* an identity that is no admin has been refused a mutating statement
C10_Witness ==
    /\ last.kind = "ask"
    /\ role_of[last.user] # "admin"
    /\ last.sql # ""
    /\ is_write[last.sql]
    /\ last.resp.code = 403

----------------------------------------------------------------------------
(* What is_write_query answers.                                            *)

\* the same letter, in either case
SameLetter(a, b) ==
    \/ a = b
    \/ \E k \in 1..Len(LowerAlpha) :
         { a, b } = { CharAt(LowerAlpha, k), CharAt(UpperAlpha, k) }

\* keyword kw stands in text s from position i on, in any letter case
MatchesAt(s, i, kw) ==
    /\ i + Len(kw) - 1 <= Len(s)
    /\ \A j \in 1..Len(kw) : SameLetter(CharAt(s, i + j - 1), CharAt(kw, j))

\* a character of a word: a letter, a digit or the underscore
IsWordChar(c) ==
    \/ IndexIn(LowerAlpha, c) > 0
    \/ IndexIn(UpperAlpha, c) > 0
    \/ IndexIn(Digits, c) > 0
    \/ c = "_"

\* the match at position i is a whole word
WholeWordAt(s, i, kw) ==
    /\ MatchesAt(s, i, kw)
    /\ i = 1 \/ ~IsWordChar(CharAt(s, i - 1))
    /\ i + Len(kw) - 1 = Len(s) \/ ~IsWordChar(CharAt(s, i + Len(kw)))

MentionsKeyword(s) ==
    \E kw \in keywords : \E i \in 1..Len(s) : MatchesAt(s, i, kw)

MentionsKeywordAsWord(s) ==
    \E kw \in keywords : \E i \in 1..Len(s) : WholeWordAt(s, i, kw)

\* C9 as the specification words it: is_write_query answers true for the
\* texts that hold a mutating keyword as a whole word in any letter case, and
\* false for the texts that hold none as a whole word.
C9_WholeWord ==
    wq_pc = "return" => (wq_result <=> MentionsKeywordAsWord(wq_query))

\* C9 as the code has it: is_write_query answers true exactly for the texts
\* in which a mutating keyword stands somewhere in any letter case, inside a
\* longer word or not; so it answers true for every text that holds a keyword
\* as a whole word, and false for every text in which no keyword stands.
C9_Substring ==
    wq_pc = "return" =>
        /\ wq_result <=> MentionsKeyword(wq_query)
        /\ MentionsKeywordAsWord(wq_query) => wq_result

\* is_write_query has answered true for a text that holds a keyword inside
\* an identifier only
C9_Witness ==
    /\ wq_pc = "return"
    /\ wq_result
    /\ MentionsKeyword(wq_query)
    /\ ~MentionsKeywordAsWord(wq_query)

----------------------------------------------------------------------------
(* The Synthesizer's answers, read off a call.                             *)

\* name stands in text somewhere, in any letter case
Mentions(text, name) ==
    name # "" /\ \E i \in 1..Len(text) : MatchesAt(text, i, name)

\* the names of the tables and of the columns of a schema
NamesOf(schema) ==
    tables_of(schema)
      \cup UNION { { schema[t][k] : k \in 1..Len(schema[t]) } : t \in tables_of(schema) }

MentionsSchema(text, schema) == \E name \in NamesOf(schema) : Mentions(text, name)

\* a synthesis-failure value
IsFailureValue(text) == startswith(text, "Error:")

\* the turns of the call's conversation that nlp_to_sql.py:23-47 keeps
FilteredTurns == filter_history_for_llm(syn.chat_history)

\* a turn of the filtered conversation names the table
NamedInHistory(table) ==
    \E k \in 1..Len(FilteredTurns) : Mentions(FilteredTurns[k].content, table)

SameText(a, b) == Len(a) = Len(b) /\ MatchesAt(a, 1, b)

\* C12: in one call of generate_sql_from_chat_history the gateway is asked at
\* most twice. It is asked a second time only when its first answer named
\* nothing of the schema, and then the prompt carries a hint with a table of
\* the schema that a turn of the filtered conversation names (the first
\* prompt carries none). What the second answer gives is returned only if it
\* names something of the schema; when it does not, or the gateway fails on
\* the second prompt, the synthesis failure returned holds the SQL text of
\* the first answer.
C12_OneRetry ==
    /\ Len(syn.calls) <= 2
    /\ Len(syn.calls) >= 1 => syn.calls[1].hint = None
    /\ Len(syn.calls) = 2 =>
         /\ syn.replies[1].ok
         /\ ~MentionsSchema(syn.sql, syn.schema)
         /\ \E t \in tables_of(syn.schema) :
              SameText(syn.calls[2].hint, t) /\ NamedInHistory(t)
         /\ syn.pc = "return" =>
              IF syn.replies[2].ok /\ MentionsSchema(syn.replies[2].text, syn.schema)
              THEN /\ MentionsSchema(syn.result, syn.schema)
                   /\ Contains(syn.replies[2].text, syn.result)
              ELSE syn.result =
                     "Error: Generated SQL does not reference known tables/columns from the schema. SQL: "
                       \o syn.sql

\* the gateway failed on the second prompt and the failure returned holds the
\* first answer
C12_Witness ==
    /\ syn.pc = "return"
    /\ Len(syn.calls) = 2
    /\ syn.calls[2].hint = "users"
    /\ ~syn.replies[2].ok
    /\ syn.sql = "DROP TABLE old_stuff"
    /\ syn.result = UngroundedFailure

----------------------------------------------------------------------------
(* Synthesis failures and the list-tables request in ask.                  *)

\* the response of request r holds the text
Carries(r, text) == Contains(r.resp.error, text) \/ r.resp.sql = text

\* C13: an ask request to which the Synthesizer has returned a failure value
\* (the gateway's SQL named nothing of the schema, or the gateway failed) has
\* no statement run on the database, and once it is answered its response is
\* an error response that holds the failure text.
C13_SynthesisFailureReported ==
    \A r \in AllRequests :
        (r.kind = "ask" /\ IsFailureValue(r.sql)) =>
            /\ \A k \in 1..Len(r.calls) : ~Ran(r.calls[k])
            /\ Answered(r) => (r.resp.code >= 400 /\ Carries(r, r.sql))

\* the utterance of ask request r matches the list-tables pattern
AsksForTables(r) ==
    r.kind = "ask" /\ r.message \in DOMAIN show_tables /\ show_tables[r.message]

\* C14: an ask request whose utterance matches the list-tables pattern (and
\* that is not turned away for want of a cached schema) is answered without
\* the Clarifier Gate or the Synthesizer having called the text-generation
\* gateway, and the SQL it yields is exactly the catalog query.
C14_ListTablesWithoutGateway ==
    \A r \in AllRequests :
        (AsksForTables(r) /\ Answered(r) /\ r.resp.code # 400) =>
            /\ r.gateway \cap { "maybe_generate_clarifier",
                                "generate_sql_from_chat_history" } = { }
            /\ r.sql = CatalogSql
            /\ r.resp.sql = CatalogSql

----------------------------------------------------------------------------
(* The Clarifier Gate's answers.                                           *)

\* the text begins, after blanks if any, with CLEAR in any letter case
BeginsWithClear(text) ==
    \E i \in 1..Len(text) :
        /\ \A j \in 1..(i - 1) : CharAt(text, j) = " "
        /\ MatchesAt(text, i, "CLEAR")

\* C15: maybe_generate_clarifier returns None when the gateway's answer
\* begins with CLEAR in any letter case, and when the call of the gateway
\* fails; ask then goes on to the Synthesizer. For every other answer it
\* returns the answer's text (without the blanks around it).
C15_ClearOrFailureIsNone ==
    clar.pc \in { "return", "done" } =>
        IF ~clar.reply.ok \/ BeginsWithClear(clar.reply.text)
        THEN /\ clar.result = None
             /\ clar.pc = "done" => clar.next = "ask_synth"
        ELSE /\ clar.result # None
             /\ clar.result = strip(clar.reply.text)

\* the gateway has answered 'Clearly' and ask has gone on to the Synthesizer
C15_Witness ==
    /\ clar.pc = "done"
    /\ clar.reply = Reply(TRUE, "Clearly")
    /\ clar.result = None
    /\ clar.next = "ask_synth"

\* C16: an ask request to which the Clarifier Gate has returned a question
\* stops there: the Synthesizer is not called for it, it calls execute_query
\* for nothing, it stores and removes no pending entry, and once answered it
\* has appended the question as an assistant turn of the caller's
\* conversation (after the utterance) and answered 200 with the question.
C16_ClarifierStops ==
    \A r \in AllRequests :
        (r.kind = "ask" /\ r.clarifier \notin { None, "" }) =>
            /\ r.sql = ""
            /\ "generate_sql_from_chat_history" \notin r.gateway
            /\ r.calls = << >>
            /\ r.stored = 0 /\ r.consumed = 0
            /\ r.pc \in { "ask_clarified", "done" }
            /\ Answered(r) =>
                 /\ Len(r.turns) = 2
                 /\ \E row \in TurnsOf(r) :
                      /\ row.message_id = r.turns[2]
                      /\ row.user_id = r.user
                      /\ row.role = "assistant"
                      /\ row.content = r.clarifier
                 /\ r.resp.code = 200
                 /\ r.resp.clarifier = r.clarifier

\* an ask request has been answered with a clarifying question
C16_Witness ==
    /\ last.kind = "ask"
    /\ Answered(last)
    /\ last.clarifier = "Which table should I use?"
    /\ last.resp.clarifier = "Which table should I use?"
    /\ \E row \in TurnsOf(last) : row.content = "Which table should I use?"

----------------------------------------------------------------------------
(* The Error Humanizer's answers.                                          *)

\* C18 as the specification words it: a call of rewrite_db_error comes back
\* with a text, and when the call of the gateway has failed that text is the
\* raw error text it was given, nothing added and nothing removed.
C18_FallbackVerbatim ==
    hum.pc = "return" =>
        (~hum.reply.ok => hum.result = hum.error_message)

\* C18 as the code has it: a call of rewrite_db_error comes back with a text,
\* whatever the error text and the conversation; when the call of the gateway
\* has failed the text is 'An error occurred: ' followed by the raw error
\* text as it was given, and when the gateway has answered it is the answer
\* without the blanks around it.
C18_FallbackPrefixed ==
    hum.pc = "return" =>
        IF hum.reply.ok
        THEN hum.result = strip(hum.reply.text)
        ELSE /\ hum.result = "An error occurred: " \o hum.error_message
             /\ Len(hum.result) = Len(hum.error_message) + 19

\* the gateway has failed and the driver's message has come back behind the
\* fixed lead-in
C18_Witness ==
    /\ hum.pc = "return"
    /\ ~hum.reply.ok
    /\ hum.error_message = DriverError
    /\ hum.result = "An error occurred: relation \"users\" does not exist"

----------------------------------------------------------------------------
(* Error responses.                                                        *)

\* C19: every error response of an ask, confirm or cancel request (status 400
\* for a missing message, a schema not cached, no pending entry or an invalid
\* decision; 403 for a write refused; 500 for a failed execution) has a
\* history field with the conversation of the identity.
C19_ErrorResponsesCarryHistory ==
    \A r \in AllRequests :
        (r.kind \in { "ask", "confirm", "cancel" } /\ Answered(r) /\ r.resp.code >= 400) =>
            r.resp.has_history

\* the call of execute_query did not come back with a result
Failed(call) == call.outcome \in { "fail", "invalid" }

\* what rewrite_db_error may make of the error of request r
Humanized(r) == { rewrite_db_error(r.error, reply) : reply \in HumanizerReplies }

\* C17: in an ask, confirm or generate_chart request, a statement that
\* execute_query failed to run is not handed to execute_query again by the
\* same request, and once the request is answered rewrite_db_error has been
\* called for the failure and the error of the response is its result.
C17_FailuresHumanized ==
    \A r \in AllRequests :
        r.kind \in { "ask", "confirm", "chart" } =>
            /\ Len(r.calls) <= 1
            /\ (Answered(r) /\ \E k \in 1..Len(r.calls) : Failed(r.calls[k])) =>
                 /\ "rewrite_db_error" \in r.gateway
                 /\ r.resp.error \in Humanized(r)

----------------------------------------------------------------------------
(* The chat store under client-chosen message ids.                         *)

\* the places of the turns with the message id in a conversation
TurnsWithId(history, message_id) ==
    { k \in 1..Len(history) : history[k].message_id = message_id }

\* with this step a chat request saves a turn under the message id and for
\* the identity of the chat request answered last, which saved another content
SecondAppend ==
    /\ received' = received + 1
    /\ Arrived.kind = "chat"
    /\ Arrived.message # ""
    /\ Arrived.message_id # ""
    /\ last.kind = "chat"
    /\ last.user = Arrived.user
    /\ last.message_id = Arrived.message_id
    /\ last.message \notin { "", Arrived.message }

C20_Step ==
    SecondAppend =>
        LET before == get_history(chat_messages, Arrived.user)
            after == get_history(chat_messages', Arrived.user)
        IN  /\ Cardinality(TurnsWithId(after, Arrived.message_id)) = 1
            /\ \A k \in TurnsWithId(after, Arrived.message_id) :
                 /\ after[k].content = Arrived.message
                 /\ after[k].role = Arrived.role
            /\ Len(after) = Len(before)

\* C20: when an identity appends a turn under a message id under which it
\* has just appended another content, its conversation afterwards has exactly
\* one turn with that message id, with the content and the role of the later
\* append, and no more turns than before the later append (so the two appends
\* have added one turn, not two).
C20_SameIdOneTurn == [][C20_Step]_vars

----------------------------------------------------------------------------
(* Clearing a conversation.                                                *)

\* with this step a chat_clear request of the identity came in
Clears(user) ==
    /\ received' = received + 1
    /\ Arrived.kind = "chat_clear"
    /\ Arrived.user = user

C21_Step ==
    \A user \in Users :
        Clears(user) =>
            /\ get_history(chat_messages', user) = << >>
            /\ \A other \in Users \ { user } :
                 get_history(chat_messages', other) = get_history(chat_messages, other)

\* C21: in the step of a chat_clear request of an identity, the conversation
\* listed for that identity becomes empty whatever turns it held, and the
\* conversation listed for every other identity stays as it was.
C21_ClearEmptiesOwnOnly == [][C21_Step]_vars

\* a clear has removed turns of its identity while the other identity holds turns
C21_Witness ==
    /\ last.kind = "chat_clear"
    /\ Len(last.removed) > 0
    /\ get_history(chat_messages, last.user) = << >>
    /\ \E other \in Users \ { last.user } : Len(get_history(chat_messages, other)) > 0

----------------------------------------------------------------------------
(* Whose turns a request touches.                                          *)

\* the identity of the request that takes the step
ActingUser ==
    IF received' # received
    THEN Arrived.user
    ELSE CHOOSE user \in Users :
           \E t \in Threads : reqs'[t] # reqs[t] /\ reqs[t].user = user

C22_Step ==
    \A user \in Users :
        get_history(chat_messages', user) # get_history(chat_messages, user)
            => ActingUser = user

\* C22: a step that adds, overwrites or removes a turn of the conversation
\* listed for an identity is a step of a request authenticated as that
\* identity.
C22_TurnsOwnedByIdentity == [][C22_Step]_vars

----------------------------------------------------------------------------
(* The schema cache.                                                       *)

\* the identity whose request takes the step, a chat_schema request included
Fetcher ==
    IF fetching' # fetching
    THEN CHOOSE user \in Users : user \in (fetching \ fetching') \cup (fetching' \ fetching)
    ELSE ActingUser

\* an entry that holds a description with tables stays as it is
CachedStays ==
    \A user \in Users :
        ~absent(schema_cache[user]) => schema_cache'[user] = schema_cache[user]

\* an entry changes only in a step of a request of its identity
OwnEntryOnly ==
    \A user \in Users :
        schema_cache'[user] # schema_cache[user] => Fetcher = user

\* C23: an entry of the schema cache that holds a non-empty description keeps
\* its value in every step, and an entry is only ever changed by a request of
\* its own identity.
C23_CachedSchemaImmutable == [][CachedStays /\ OwnEntryOnly]_vars

\* after this step the request answered last has ended with the exception of
\* the catalog read
FetchFailed ==
    /\ last'.resp.code = 500
    /\ last'.resp.error = FetchFailure

\* the cache after cache_schema_for_user has returned to a request of the identity
Refreshed(user) == [ schema_cache EXCEPT ![user] = catalog ]

\* the places at which a handler is inside cache_schema_for_user
FetchPlaces == { "chat_fetch", "chart_fetch" }

C24_Step ==
    /\ \A t \in Threads :
         (reqs[t].pc \in FetchPlaces /\ reqs'[t] # reqs[t]) =>
             \/ /\ FetchFailed
                /\ last'.rid = reqs[t].rid
                /\ reqs'[t].pc = "idle"
                /\ schema_cache' = schema_cache
             \/ /\ reqs'[t].rid = reqs[t].rid
                /\ reqs'[t].pc \notin FetchPlaces
                /\ schema_cache' = Refreshed(reqs[t].user)
    /\ \A user \in fetching \ fetching' :
         \/ /\ FetchFailed
            /\ last'.user = user
            /\ schema_cache' = schema_cache
         \/ /\ last'.resp.code = 200
            /\ schema_cache' = Refreshed(user)

\* C24: when a request leaves cache_schema_for_user, either the catalog read
\* failed, the request ends with that exception and the schema cache is as it
\* was before, or the read succeeded and the entry of the identity holds the
\* description read; a failed read stores nothing.
C24_FailedFetchStoresNothing == [][C24_Step]_vars

\* a refresh has failed for an identity without an entry while the other
\* identity has one
C24_Witness ==
    /\ last.resp.code = 500
    /\ last.resp.error = FetchFailure
    /\ schema_cache[last.user] = None
    /\ \E other \in Users \ { last.user } : ~absent(schema_cache[other])

----------------------------------------------------------------------------
(* What detect_chartable answers.                                          *)

\* a text of digits with at most one point among them, and one digit at least
NumericLooking(text) ==
    LET points == { k \in 1..Len(text) : CharAt(text, k) = "." }
    IN  /\ Cardinality(points) <= 1
        /\ Cardinality(points) < Len(text)
        /\ \A k \in (1..Len(text)) \ points : Contains(Digits, CharAt(text, k))

\* an integer, a float, a numeric-looking text, or null
NumericOrNull(v) ==
    \/ v.py \in { "int", "float", "NoneType" }
    \/ v.py = "str" /\ NumericLooking(v.text)

\* the rows among the first ten
FirstTen(rows) == { k \in 1..Len(rows) : k <= 10 }

\* C25: detect_chartable answers (true, "bar") exactly when there are two
\* columns or more, one row or more, and the second value of each of the first
\* ten rows is an integer, a float, a numeric-looking text or null; it answers
\* not chartable otherwise, whatever the rows after the tenth hold.
C25_ChartableExactly ==
    det.pc = "return" =>
        det.result =
            IF /\ Len(det.columns) >= 2
               /\ Len(det.rows) >= 1
               /\ \A k \in FirstTen(det.rows) : NumericOrNull(det.rows[k][2])
            THEN [ chartable |-> TRUE, kind |-> "bar" ]
            ELSE NotChartable

----------------------------------------------------------------------------
(* What normalize_history answers.                                         *)

\* the value of the first of the keys that has a truthy value in the entry
FirstOf(entry, keys) ==
    LET having == { k \in 1..Len(keys) : keys[k] \in DOMAIN entry /\ entry[keys[k]] \notin { None, "" } }
    IN  IF having = { }
        THEN None
        ELSE entry[keys[CHOOSE k \in having : \A j \in having : k <= j]]

\* both are the same value, or both stand for no value
SameOrNone(a, b) == a = b \/ (a \in { None, "" } /\ b \in { None, "" })

CanonicalKeys == { "role", "content", "message_id", "timestamp" }

\* C26: normalize_history answers one record of role, content, message_id and
\* timestamp for each entry, in the order of the entries: for a dictionary the
\* role is that of role, else of type, else assistant, the content that of
\* content, else of text, else of message, the message_id that of message_id,
\* else of messageId, else of id; for any other entry the role is assistant
\* and the content is the entry's string form.
C26_OneCanonicalRecordEach ==
    norm.pc = "return" =>
        /\ Len(norm.result) = Len(norm.raw_history)
        /\ \A k \in 1..Len(norm.raw_history) :
             LET entry == norm.raw_history[k]
                 turn == norm.result[k]
             IN  /\ DOMAIN turn = CanonicalKeys
                 /\ IF "str" \in DOMAIN entry
                    THEN /\ turn.role = "assistant"
                         /\ turn.content = entry.str
                    ELSE /\ turn.role = IF FirstOf(entry, << "role", "type" >>) = None
                                        THEN "assistant"
                                        ELSE FirstOf(entry, << "role", "type" >>)
                         /\ SameOrNone(turn.content,
                                       FirstOf(entry, << "content", "text", "message" >>))
                         /\ SameOrNone(turn.message_id,
                                       FirstOf(entry, << "message_id", "messageId", "id" >>))

\* a history of a dictionary that names its role under type and its content
\* under text, followed by an entry that is no dictionary
C26_Witness ==
    /\ norm.pc = "return"
    /\ Len(norm.raw_history) = MaxHistory
    /\ "type" \in DOMAIN norm.raw_history[1]
    /\ "str" \in DOMAIN norm.raw_history[2]
    /\ norm.result[1].role = "system"
    /\ norm.result[1].content = "t"
    /\ norm.result[2].content = "hello"

----------------------------------------------------------------------------
(* The request the Synthesizer answers for an ask.                         *)

\* the ask requests that have read their conversation (app.py:355)
HasHistory(r) ==
    r.kind = "ask" /\ r.pc \notin { "ask", "ask_remember", "ask_history" } /\ Len(r.turns) > 0

\* what generate_sql_from_chat_history takes as the operative request of the
\* conversation the ask hands to it (app.py:361)
OperativeRequest(r) == last_user_of(filter_history_for_llm(r.history))

\* C27: the operative request of the conversation an ask request has read is
\* the utterance that request submitted, also when ask requests of one
\* identity are served side by side.
C27_OperativeIsOwnUtterance ==
    \A r \in AllRequests : HasHistory(r) => OperativeRequest(r) = r.message

----------------------------------------------------------------------------
(* ask and the schema cache.                                               *)

\* the request was ended because its identity has no schema cached
EndedForSchema(r) == Answered(r) /\ r.resp.error = SchemaNotCachedError

\* the request has got as far as the clarifier, the Synthesizer or an execution
InPipeline(r) ==
    r.kind = "ask" /\ (Len(r.turns) > 0 \/ r.gateway # { } \/ Len(r.calls) > 0)

\* ask never works without a schema
NeverWithoutSchema ==
    \A r \in AllRequests : InPipeline(r) => ~absent(schema_cache[r.user])

\* C28: no ask request that carries an utterance is ended for want of a cached
\* schema -- the schema is fetched on first use and the request goes on --
\* and no ask request reaches the clarifier, the Synthesizer or an execution
\* while the entry of its identity is absent.
C28_AskFetchesAbsentSchema ==
    /\ \A r \in AllRequests : (r.kind = "ask" /\ r.message # "") => ~EndedForSchema(r)
    /\ NeverWithoutSchema

----------------------------------------------------------------------------
(* Who consumes a pending entry.                                           *)

\* the request has had the statement of an entry run, or has removed an entry
Consumes(r) ==
    /\ r.kind \in { "confirm", "cancel" }
    /\ \/ r.consumed # 0
       \/ r.entry # 0 /\ \E c \in CallsOf(r) : Ran(c)

\* the identity that created the entry a request found under its session key:
\* ask stores an entry under the identity of its caller (app.py:369)
OwnerOfEntry(r) == r.session_id

----------------------------------------------------------------------------
(* What a pending entry holds.                                             *)

----------------------------------------------------------------------------
(* A confirm request whose decision is neither yes nor no.                 *)

\* the decisions that are neither 'yes' nor 'no' in any writing of the letters
OtherDecisions == { d \in Decisions : lower(d) \notin { "yes", "no" } }

NeitherYesNorNo(r) == r.kind = "confirm" /\ r.decision_field \in OtherDecisions

\* the request found an entry under its session key and was turned away for
\* its decision (app.py:431-432)
Rejected(r) ==
    /\ NeitherYesNorNo(r)
    /\ r.pc = "done"
    /\ r.resp.code = 400
    /\ r.resp.error = BadDecisionError

\* such a request reads no entry, has nothing executed, appends no turn and
\* removes no entry; it is answered 400
TurnedAway(r) ==
    /\ r.entry = 0
    /\ r.calls = << >>
    /\ r.turns = << >>
    /\ r.consumed = 0
    /\ r.pc = "done" => r.resp.code = 400 /\ ~r.resp.has_history

\* the step that answers it changes neither table, and the entry is still
\* there for a later confirm or cancel
RejectionStep ==
    (last'.rid # last.rid /\ Rejected(last')) =>
        /\ pending_queries' = pending_queries
        /\ chat_messages' = chat_messages
        /\ session_state' = session_state
        /\ has_pending(pending_queries', last'.session_id)

\* C31: a confirm request on a session with a pending entry whose decision is
\* neither 'yes' nor 'no', compared without regard to case, is rejected with
\* 400 and leaves everything as it was: the entry stays, no statement is
\* executed and no turn is appended.
C31_BadDecisionChangesNothing ==
    /\ [](\A r \in AllRequests : NeitherYesNorNo(r) => TurnedAway(r))
    /\ [][RejectionStep]_vars

\* a request with such a decision has been rejected and the entry it named is
\* still in the table
C31_Witness ==
    /\ Rejected(last)
    /\ has_pending(pending_queries, last.session_id)

----------------------------------------------------------------------------
(* The history an ask response carries.                                    *)

\* the step answers an ask request with a history field
AnswersAsk ==
    /\ last'.rid # last.rid
    /\ last'.kind = "ask"
    /\ last'.resp.has_history

\* the history holds a turn of every message id in ids
HoldsTurns(history, ids) ==
    \A n \in 1..Len(ids) : \E k \in 1..Len(history) : history[k].message_id = ids[n]

\* C32: the history field of every ask response is the conversation of the
\* identity as stored when the response is produced, and so holds every turn
\* the request itself appended.
C32_AskHistoryIsCurrent ==
    [][AnswersAsk =>
          /\ last'.resp.history = get_history(chat_messages', last'.user)
          /\ HoldsTurns(last'.resp.history, last'.turns)]_vars

----------------------------------------------------------------------------
(* What generate_chart leaves alone.                                       *)

\* the statements is_write_query classifies as mutating, and the failure
\* values, among the statements of the model
ClassifiedMutating == { q \in Statements : is_write_query(q) }

FailureValues == { q \in Statements : IsFailureValue(q) }

\* the step is a step of a generate_chart request
ChartStep ==
    \/ last'.rid # last.rid /\ last'.kind = "chart"
    \/ \E i \in Threads :
         /\ reqs'[i] # reqs[i]
         /\ reqs[i].kind = "chart" \/ reqs'[i].kind = "chart"

\* what a generate_chart request has had executed, stored, removed, appended
ChartReadOnly(r) ==
    /\ \A c \in CallsOf(r) : c.sql \notin ClassifiedMutating \cup FailureValues
    /\ r.stored = 0
    /\ r.entry = 0
    /\ r.consumed = 0
    /\ r.turns = << >>
    /\ r.removed = << >>

\* C33: a generate_chart request never has a statement executed that
\* is_write_query classifies as mutating, never has a generation-failure value
\* executed, and none of its steps changes the pending table or the
\* conversation store.
C33_ChartReadOnly ==
    /\ [](\A r \in AllRequests : r.kind = "chart" => ChartReadOnly(r))
    /\ [][ChartStep =>
            /\ pending_queries' = pending_queries
            /\ chat_messages' = chat_messages
            /\ session_state' = session_state]_vars

\* a generate_chart request has had its statement executed while an entry was
\* pending and the conversation store held turns
C33_Witness ==
    /\ last.kind = "chart"
    /\ \E c \in CallsOf(last) : Ran(c)
    /\ pending_queries # << >>
    /\ chat_messages # << >>

=============================================================================
